---- MODULE Spec2Model ----
(***************************************************************************)
(* A model of build/generate.py, the generator of the Python bindings of  *)
(* the Chrome DevTools Protocol, and of the code it emits.                 *)
(*                                                                         *)
(* The generator turns IR nodes (CdpProperty, CdpType, CdpCommand,         *)
(* CdpEvent, CdpDomain) into Python text.  The model keeps the emitted     *)
(* text as structured terms (a declaration list, a statement list, keyword  *)
(* arguments with their expressions) and runs those terms with the         *)
(* semantics Python gives the text: dict lookup raises KeyError, a         *)
(* dataclass constructor raises TypeError on an unknown or a missing       *)
(* keyword, int(None) raises TypeError, str(None) is 'None', and so on.     *)
(*                                                                         *)
(* Identifiers and wire names are sequences of one-character strings, so   *)
(* that inflection.underscore is computed character by character.          *)
(***************************************************************************)
EXTENDS Integers, Sequences, FiniteSets, TLC

VARIABLES
    ir,      \* the IR node handed to the generator
    code,    \* the code the generator emitted for ir (NoCode before)
    rt,      \* the state of the emitted code at run time
    run      \* the state of one run of main()

vars == <<ir, code, rt, run>>

(***************************************************************************)
(* Characters and inflection.underscore                                    *)
(***************************************************************************)
UpperChars == <<"A", "B", "C", "D", "E", "F", "G", "H", "I", "J", "K", "L", "M",
                "N", "O", "P", "Q", "R", "S", "T", "U", "V", "W", "X", "Y", "Z">>

LowerChars == <<"a", "b", "c", "d", "e", "f", "g", "h", "i", "j", "k", "l", "m",
                "n", "o", "p", "q", "r", "s", "t", "u", "v", "w", "x", "y", "z">>

DigitChars == {"0", "1", "2", "3", "4", "5", "6", "7", "8", "9"}

IsUpper(c) == \E i \in DOMAIN UpperChars : UpperChars[i] = c

IsLower(c) == \E i \in DOMAIN LowerChars : LowerChars[i] = c

\* str.lower() on one character
LowerChar(c) ==
    IF IsUpper(c)
    THEN LowerChars[CHOOSE i \in DOMAIN UpperChars : UpperChars[i] = c]
    ELSE c

\* str.upper() on one character
UpperChar(c) ==
    IF IsLower(c)
    THEN UpperChars[CHOOSE i \in DOMAIN LowerChars : LowerChars[i] = c]
    ELSE c

\* str.lower()
lower(w) == [i \in DOMAIN w |-> LowerChar(w[i])]

\* str.upper()
upper(w) == [i \in DOMAIN w |-> UpperChar(w[i])]

\* re.sub(r"([A-Z]+)([A-Z][a-z])", r"\1_\2", w): an underscore goes before
\* an upper-case letter that follows an upper-case letter and is followed by
\* a lower-case one.
RECURSIVE SplitAcronyms(_, _)
SplitAcronyms(w, i) ==
    IF i > Len(w) THEN <<>>
    ELSE (IF /\ i > 1
             /\ i < Len(w)
             /\ IsUpper(w[i - 1])
             /\ IsUpper(w[i])
             /\ IsLower(w[i + 1])
          THEN <<"_", w[i]>>
          ELSE <<w[i]>>) \o SplitAcronyms(w, i + 1)

\* re.sub(r"([a-z\d])([A-Z])", r"\1_\2", w): an underscore goes between a
\* lower-case letter or digit and an upper-case letter.
RECURSIVE SplitWords(_, _)
SplitWords(w, i) ==
    IF i > Len(w) THEN <<>>
    ELSE (IF /\ i > 1
             /\ (IsLower(w[i - 1]) \/ w[i - 1] \in DigitChars)
             /\ IsUpper(w[i])
          THEN <<"_", w[i]>>
          ELSE <<w[i]>>) \o SplitWords(w, i + 1)

\* word.replace("-", "_")
DashToUnderscore(w) == [i \in DOMAIN w |-> IF w[i] = "-" THEN "_" ELSE w[i]]

\* inflection.underscore(word)
underscore(word) ==
    lower(DashToUnderscore(SplitWords(SplitAcronyms(word, 1), 1)))

\* CdpProperty.py_name
py_name(p) == underscore(p.name)

(***************************************************************************)
(* Python values.  A value is a record [t, v]: t is the Python type and v  *)
(* the payload (the repr of a scalar, the elements of a list, the class    *)
(* and the wrapped wire value of an instance of a generated class).        *)
(***************************************************************************)
None == [t |-> "NoneType", v |-> "None"]

PyStr(s) == [t |-> "str", v |-> s]

PyInt(s) == [t |-> "int", v |-> s]

PyFloat(s) == [t |-> "float", v |-> s]

PyBool(s) == [t |-> "bool", v |-> s]

PyDict(s) == [t |-> "dict", v |-> s]

PyList(s) == [t |-> "list", v |-> s]

\* an instance of the generated class cls that wraps the wire value raw
Obj(cls, raw) == [t |-> "obj", v |-> [cls |-> cls, raw |-> raw]]

\* a raised exception
Raise(e) == [t |-> "raise", v |-> e]

IsRaise(x) == x.t = "raise"

\* the first exception among the elements of a sequence of results, if any
FirstRaise(s) ==
    IF \E i \in DOMAIN s : IsRaise(s[i])
    THEN s[CHOOSE i \in DOMAIN s :
               IsRaise(s[i]) /\ \A j \in 1..(i - 1) : ~IsRaise(s[j])]
    ELSE None

\* str(x)
py_str(x) ==
    CASE x.t \in {"str", "int", "float", "bool", "dict", "NoneType"} -> PyStr(x.v)
      [] OTHER -> PyStr("<repr>")

\* int(x)
py_int(x) ==
    CASE x.t = "int" -> x
      [] x.t = "bool" -> PyInt(IF x.v = "True" THEN "1" ELSE "0")
      [] x.t = "float" ->
             PyInt(CASE x.v = "1.5" -> "1" [] x.v = "3.0" -> "3" [] OTHER -> "0")
      [] x.t = "str" ->
             IF x.v \in {"0", "1", "3"} THEN PyInt(x.v) ELSE Raise("ValueError")
      [] OTHER -> Raise("TypeError")

\* float(x)
py_float(x) ==
    CASE x.t = "float" -> x
      [] x.t = "int" -> PyFloat(x.v \o ".0")
      [] x.t = "bool" -> PyFloat(IF x.v = "True" THEN "1.0" ELSE "0.0")
      [] x.t = "str" ->
             IF x.v \in {"0", "1", "3"} THEN PyFloat(x.v \o ".0")
             ELSE IF x.v \in {"1.5", "3.0"} THEN PyFloat(x.v)
             ELSE Raise("ValueError")
      [] OTHER -> Raise("TypeError")

\* bool(x): the truth value of x
py_bool(x) ==
    CASE x.t = "NoneType" -> PyBool("False")
      [] x.t = "bool" -> x
      [] x.t = "str" -> PyBool(IF x.v = "" THEN "False" ELSE "True")
      [] x.t = "int" -> PyBool(IF x.v = "0" THEN "False" ELSE "True")
      [] x.t = "float" -> PyBool(IF x.v = "0.0" THEN "False" ELSE "True")
      [] x.t = "dict" -> PyBool(IF x.v = "{}" THEN "False" ELSE "True")
      [] x.t = "list" -> PyBool(IF x.v = <<>> THEN "False" ELSE "True")
      [] OTHER -> PyBool("True")

\* dict(x)
py_dict(x) ==
    CASE x.t = "dict" -> x
      [] x.t = "list" -> IF x.v = <<>> THEN PyDict("{}") ELSE Raise("TypeError")
      [] x.t = "str" -> IF x.v = "" THEN PyDict("{}") ELSE Raise("ValueError")
      [] OTHER -> Raise("TypeError")

(***************************************************************************)
(* CdpPrimitiveType                                                        *)
(***************************************************************************)
PrimitiveNames == {"any", "boolean", "integer", "number", "object", "string"}

\* CdpPrimitiveType[name].value; "" stands for the KeyError that an unknown
\* name (or None) raises.
CdpPrimitiveType(name) ==
    CASE name = "any" -> "typing.Any"
      [] name = "boolean" -> "bool"
      [] name = "integer" -> "int"
      [] name = "number" -> "float"
      [] name = "object" -> "dict"
      [] name = "string" -> "str"
      [] OTHER -> ""

\* the call py_type(x) of the Python type named by a CdpPrimitiveType value;
\* typing.Any cannot be instantiated.
CallType(py_type, x) ==
    CASE py_type = "str" -> py_str(x)
      [] py_type = "int" -> py_int(x)
      [] py_type = "float" -> py_float(x)
      [] py_type = "bool" -> py_bool(x)
      [] py_type = "dict" -> py_dict(x)
      [] OTHER -> Raise("TypeError")

(***************************************************************************)
(* The IR: CdpItems and CdpProperty.  A reference is a name (a sequence of *)
(* characters), <<>> when the schema gives none; a type is the schema's    *)
(* type string, "" when the schema gives none.                             *)
(***************************************************************************)
NoRef == <<>>

\* CdpProperty.items is None
NoItems == [given |-> FALSE, type |-> "", ref |-> NoRef]

\* CdpItems.from_json
CdpItems(type, ref) == [given |-> TRUE, type |-> type, ref |-> ref]

\* CdpProperty.from_json
CdpProperty(name, type, ref, items, optional) ==
    [name |-> name, type |-> type, ref |-> ref, items |-> items,
     optional |-> optional]

\* ref_to_python: the part of a dotted ref before the dot is snake cased;
\* ref.split('.') into two names raises ValueError on a second dot.
ref_to_python(ref) ==
    LET dots == {i \in DOMAIN ref : ref[i] = "."}
    IN  IF dots = {} THEN ref
        ELSE IF Cardinality(dots) = 1
        THEN LET i == CHOOSE d \in dots : TRUE
             IN  underscore(SubSeq(ref, 1, i - 1)) \o <<".">>
                     \o SubSeq(ref, i + 1, Len(ref))
        ELSE <<"!", "V", "a", "l", "u", "e", "E", "r", "r", "o", "r">>

\* CdpProperty.py_annotation
py_annotation(p) ==
    [list |-> p.items.given,
     of |-> IF p.items.given
            THEN (IF p.items.ref # NoRef
                  THEN [ref |-> ref_to_python(p.items.ref), prim |-> ""]
                  ELSE [ref |-> NoRef, prim |-> CdpPrimitiveType(p.items.type)])
            ELSE (IF p.ref # NoRef
                  THEN [ref |-> ref_to_python(p.ref), prim |-> ""]
                  ELSE [ref |-> NoRef, prim |-> CdpPrimitiveType(p.type)]),
     optional |-> p.optional]

\* CdpProperty.generate_decl: "<py_name>: <annotation>", and " = None" when
\* the property is optional
generate_decl(p) ==
    [name |-> py_name(p), annotation |-> py_annotation(p), default |-> p.optional]

\* generate_to_json without the "is not None" guard of an optional property
generate_to_json_unguarded(p, dict_, use_self) ==
    [dict |-> dict_,
     key |-> p.name,
     var |-> py_name(p),
     use_self |-> use_self,
     value |-> IF p.items.given
               THEN (IF p.items.ref # NoRef THEN "list_to_json" ELSE "list_copy")
               ELSE (IF p.ref # NoRef THEN "to_json" ELSE "verbatim"),
     guarded |-> FALSE]

\* generate_to_json with the test of self.ref made before the test of
\* self.items
generate_to_json_ref_first(p, dict_, use_self) ==
    [dict |-> dict_,
     key |-> p.name,
     var |-> py_name(p),
     use_self |-> use_self,
     value |-> IF p.ref # NoRef THEN "to_json"
               ELSE IF p.items.given
               THEN (IF p.items.ref # NoRef THEN "list_to_json" ELSE "list_copy")
               ELSE "verbatim",
     guarded |-> p.optional]

\* CdpProperty.generate_to_json: the statement
\*     [if <var> is not None:] <dict_>['<name>'] = <value>
\* where <var> is self.<py_name> or <py_name>
generate_to_json(p, dict_, use_self) ==
    [dict |-> dict_,
     key |-> p.name,
     var |-> py_name(p),
     use_self |-> use_self,
     value |-> IF p.items.given
               THEN (IF p.items.ref # NoRef THEN "list_to_json" ELSE "list_copy")
               ELSE (IF p.ref # NoRef THEN "to_json" ELSE "verbatim"),
     guarded |-> p.optional]

\* generate_from_json with the test "if '<name>' in <dict_> else None" put
\* after the expression of every property, optional or not
generate_from_json_always_guarded(p, dict_) ==
    [dict |-> dict_,
     key |-> p.name,
     conv |-> IF p.items.given
              THEN (IF p.items.ref # NoRef THEN "list_from_json" ELSE "list_call")
              ELSE (IF p.ref # NoRef THEN "from_json" ELSE "lookup"),
     target |-> IF p.items.given
                THEN (IF p.items.ref # NoRef
                      THEN [ref |-> ref_to_python(p.items.ref), prim |-> ""]
                      ELSE [ref |-> NoRef, prim |-> CdpPrimitiveType(p.items.type)])
                ELSE (IF p.ref # NoRef
                      THEN [ref |-> ref_to_python(p.ref), prim |-> ""]
                      ELSE [ref |-> NoRef, prim |-> ""]),
     guarded |-> TRUE,
     wrap |-> ""]

\* CdpProperty.generate_from_json: the expression
\*     <conversion of dict_['<name>']> [if '<name>' in <dict_> else None]
generate_from_json(p, dict_) ==
    [dict |-> dict_,
     key |-> p.name,
     conv |-> IF p.items.given
              THEN (IF p.items.ref # NoRef THEN "list_from_json" ELSE "list_call")
              ELSE (IF p.ref # NoRef THEN "from_json" ELSE "lookup"),
     target |-> IF p.items.given
                THEN (IF p.items.ref # NoRef
                      THEN [ref |-> ref_to_python(p.items.ref), prim |-> ""]
                      ELSE [ref |-> NoRef, prim |-> CdpPrimitiveType(p.items.type)])
                ELSE (IF p.ref # NoRef
                      THEN [ref |-> ref_to_python(p.ref), prim |-> ""]
                      ELSE [ref |-> NoRef, prim |-> ""]),
     guarded |-> p.optional,
     wrap |-> ""]

(***************************************************************************)
(* Running the emitted text.  A JSON object and the attributes of an       *)
(* instance are functions from names to values, kept in a value of type    *)
(* "json" and "instance".                                                  *)
(***************************************************************************)
EmptyMap == [k \in {} |-> None]

Json(m) == [t |-> "json", v |-> m]

Instance(m) == [t |-> "instance", v |-> m]

\* m[key] = val
Store(m, key, val) ==
    [k \in DOMAIN m \cup {key} |-> IF k = key THEN val ELSE m[k]]

\* <cls>.to_json() of a referenced type: generate_primitive_code emits
\* "return self", the wrapped wire value
obj_to_json(x) ==
    IF x.t = "obj" THEN x.v.raw ELSE Raise("AttributeError")

\* <cls>.from_json(json) of a referenced type: generate_primitive_code emits
\* "return cls(json)"
obj_from_json(cls, json) == Obj(cls, json)

\* the right-hand side of the statement generate_to_json emits, on value x
to_json_value(stmt, x) ==
    CASE stmt.value = "list_to_json" ->
             IF x.t # "list" THEN Raise("TypeError")
             ELSE LET out == [i \in DOMAIN x.v |-> obj_to_json(x.v[i])]
                  IN  IF FirstRaise(out) # None THEN FirstRaise(out)
                      ELSE PyList(out)
      [] stmt.value = "list_copy" ->
             IF x.t # "list" THEN Raise("TypeError") ELSE PyList(x.v)
      [] stmt.value = "to_json" -> obj_to_json(x)
      [] OTHER -> x

\* the emitted statement with the guard "if <var>:" in the place of
\* "if <var> is not None:"
exec_to_json_if_truthy(stmt, env, d) ==
    IF stmt.var \notin DOMAIN env
    THEN Raise(IF stmt.use_self THEN "AttributeError" ELSE "NameError")
    ELSE IF stmt.guarded /\ py_bool(env[stmt.var]) = PyBool("False")
    THEN d
    ELSE LET val == to_json_value(stmt, env[stmt.var])
         IN  IF IsRaise(val) THEN val ELSE Json(Store(d.v, stmt.key, val))

\* One statement emitted by generate_to_json, run with the variables env
\* (the attributes of self, or the arguments of the command) on the dict d:
\* the dict after it, or the exception it raises.
exec_to_json(stmt, env, d) ==
    IF stmt.var \notin DOMAIN env
    THEN Raise(IF stmt.use_self THEN "AttributeError" ELSE "NameError")
    ELSE IF stmt.guarded /\ env[stmt.var] = None
    THEN d
    ELSE LET val == to_json_value(stmt, env[stmt.var])
         IN  IF IsRaise(val) THEN val ELSE Json(Store(d.v, stmt.key, val))

\* the statements of a to_json body or of a command's parameter block, in
\* order, from the dict d; an exception ends the run
RECURSIVE exec_block(_, _, _)
exec_block(stmts, env, d) ==
    IF stmts = <<>> \/ IsRaise(d) THEN d
    ELSE exec_block(Tail(stmts), env, exec_to_json(Head(stmts), env, d))

\* The expression emitted by generate_from_json, evaluated on the JSON
\* object json: a value, or the exception raised.  wrap is the call of a
\* primitive type that CdpParameter and CdpReturn put around the expression.
eval_from_json(expr, json) ==
    LET inner ==
            IF expr.guarded /\ expr.key \notin DOMAIN json.v THEN None
            ELSE IF expr.key \notin DOMAIN json.v THEN Raise("KeyError")
            ELSE LET x == json.v[expr.key]
                 IN  CASE expr.conv = "list_from_json" ->
                              IF x.t # "list" THEN Raise("TypeError")
                              ELSE PyList([i \in DOMAIN x.v |->
                                              obj_from_json(expr.target.ref, x.v[i])])
                       [] expr.conv = "list_call" ->
                              IF x.t # "list" THEN Raise("TypeError")
                              ELSE LET out == [i \in DOMAIN x.v |->
                                                  CallType(expr.target.prim, x.v[i])]
                                   IN  IF FirstRaise(out) # None THEN FirstRaise(out)
                                       ELSE PyList(out)
                       [] expr.conv = "from_json" ->
                              obj_from_json(expr.target.ref, x)
                       [] OTHER -> x
    IN  IF expr.wrap = "" \/ IsRaise(inner) THEN inner
        ELSE CallType(expr.wrap, inner)

\* Python's binding of the keyword arguments kwargs (a sequence of [kw, val])
\* to a signature sig (a sequence of [name, default], the default being
\* None): a keyword that names no parameter, or a parameter without default
\* that gets no keyword, is a TypeError.  The arguments are evaluated first.
bind_keywords(sig, kwargs) ==
    LET names == {sig[i].name : i \in DOMAIN sig}
        given == {kwargs[i].kw : i \in DOMAIN kwargs}
        vals == [i \in DOMAIN kwargs |-> kwargs[i].val]
    IN  IF FirstRaise(vals) # None THEN FirstRaise(vals)
        ELSE IF given \ names # {} THEN Raise("TypeError")
        ELSE IF \E i \in DOMAIN sig : ~sig[i].default /\ sig[i].name \notin given
        THEN Raise("TypeError")
        ELSE Instance([n \in names |->
                 IF n \in given
                 THEN kwargs[CHOOSE i \in DOMAIN kwargs : kwargs[i].kw = n].val
                 ELSE None])

\* cls(**kwargs) of the dataclass with the declared fields
dataclass_init(fields, kwargs) == bind_keywords(fields, kwargs)

\* Python accepts a parameter (or dataclass field) without default only
\* before every parameter with a default
defaults_last(sig) ==
    \A i, j \in DOMAIN sig : i < j /\ sig[i].default => sig[j].default

(***************************************************************************)
(* CdpType and the class emitted for a type with properties                *)
(***************************************************************************)
\* CdpType.from_json (description left out: it only feeds docstrings)
CdpType(id, type, items, enum, properties) ==
    [node |-> "type", id |-> id, type |-> type, items |-> items, enum |-> enum,
     properties |-> properties]

\* operator.attrgetter('optional') as a sort key: False < True
SortKey(p) == IF p.optional THEN 1 ELSE 0

\* InsertByKey that puts p before the elements with an equal key: a sort
\* that does not keep the schema order among equals
InsertByKey_unstable(sorted, p) ==
    LET later == {i \in DOMAIN sorted : SortKey(sorted[i]) >= SortKey(p)}
        at == IF later = {} THEN Len(sorted) + 1
              ELSE CHOOSE i \in later : \A j \in later : i <= j
    IN  SubSeq(sorted, 1, at - 1) \o <<p>> \o SubSeq(sorted, at, Len(sorted))

\* one step of the stable sort: p goes before the first element whose key is
\* greater than its own, after every element with an equal key
InsertByKey(sorted, p) ==
    LET later == {i \in DOMAIN sorted : SortKey(sorted[i]) > SortKey(p)}
        at == IF later = {} THEN Len(sorted) + 1
              ELSE CHOOSE i \in later : \A j \in later : i <= j
    IN  SubSeq(sorted, 1, at - 1) \o <<p>> \o SubSeq(sorted, at, Len(sorted))

\* props.sort(key=operator.attrgetter('optional')): list.sort is stable
RECURSIVE SortByOptional(_)
SortByOptional(props) ==
    IF props = <<>> THEN <<>>
    ELSE InsertByKey(SortByOptional(SubSeq(props, 1, Len(props) - 1)),
                     props[Len(props)])

\* CdpType.generate_class_code: the declarations and the to_json body follow
\* the sorted properties, the keywords of from_json the schema order
generate_class_code(t) ==
    LET props == SortByOptional(t.properties)
    IN  [kind |-> "class",
         id |-> t.id,
         fields |-> [i \in DOMAIN props |-> generate_decl(props[i])],
         to_json |-> [i \in DOMAIN props |->
                         generate_to_json(props[i], "json", TRUE)],
         from_json |-> [i \in DOMAIN t.properties |->
                           [kw |-> t.properties[i].name,
                            expr |-> generate_from_json(t.properties[i], "json")]]]

\* @dataclass on the emitted class: a field without default after a field
\* with a default is a TypeError when the module is loaded
dataclass_ok(fields) == defaults_last(fields)

\* the emitted to_json(self)
class_to_json(cls, self) == exec_block(cls.to_json, self.v, Json(EmptyMap))

\* the emitted from_json(cls, json): return cls(<kw>=<expr>, ...)
class_from_json(cls, json) ==
    dataclass_init(cls.fields,
                   [i \in DOMAIN cls.from_json |->
                       [kw |-> cls.from_json[i].kw,
                        val |-> eval_from_json(cls.from_json[i].expr, json)]])

(***************************************************************************)
(* Inputs: schemas and values                                              *)
(***************************************************************************)
\* bounds of the inputs
MaxProps == 2

MaxFields == 4

\* wire names: plain, camelCase, with an acronym
Name_id == <<"i", "d">>

Name_nodeId == <<"n", "o", "d", "e", "I", "d">>

Name_value == <<"v", "a", "l", "u", "e">>

WireNames == {Name_id, Name_nodeId, Name_value}

\* references: local, and into another domain
Ref_Node == <<"N", "o", "d", "e">>

Ref_DOM_Node == <<"D", "O", "M", ".", "N", "o", "d", "e">>

Refs == {Ref_Node, Ref_DOM_Node}

ScalarKinds == {"string", "integer", "any"}

\* the value shapes of a property: scalar, reference, list of either
Shapes ==
    {[type |-> k, ref |-> NoRef, items |-> NoItems] : k \in ScalarKinds}
    \cup {[type |-> "", ref |-> r, items |-> NoItems] : r \in Refs}
    \cup {[type |-> "array", ref |-> NoRef, items |-> CdpItems(k, NoRef)] :
             k \in ScalarKinds}
    \cup {[type |-> "array", ref |-> NoRef, items |-> CdpItems("", r)] :
             r \in {Ref_Node}}
    \cup {[type |-> "", ref |-> Ref_Node, items |-> CdpItems("string", NoRef)]}

Properties(names) ==
    {CdpProperty(n, s.type, s.ref, s.items, o) :
        n \in names, s \in Shapes, o \in BOOLEAN}

\* the sequences of 1..n properties with distinct wire names and distinct
\* Python names
PropertyLists(names, n) ==
    {ps \in UNION {[1..k -> Properties(names)] : k \in 1..n} :
        \A i, j \in DOMAIN ps :
            i # j => ps[i].name # ps[j].name /\ py_name(ps[i]) # py_name(ps[j])}

\* the wire values of a scalar kind
ScalarValues(kind) ==
    CASE kind = "string" -> {PyStr("v"), PyStr("")}
      [] kind = "integer" -> {PyInt("3"), PyInt("0")}
      [] kind = "boolean" -> {PyBool("True"), PyBool("False")}
      [] kind = "number" -> {PyFloat("1.5")}
      [] kind = "object" -> {PyDict("{}")}
      [] OTHER -> {PyStr("v")}

\* the schema-valid wire values of a property
WireValues(p) ==
    IF p.items.given
    THEN {PyList(<<>>)}
         \cup (IF p.items.ref # NoRef
               THEN {PyList(<<PyStr("v")>>)}
               ELSE {PyList(<<x>>) : x \in ScalarValues(p.items.type)})
    ELSE IF p.ref # NoRef THEN {PyStr("v")}
    ELSE ScalarValues(p.type)

\* the values a field or an argument of the property's type can hold
FieldValues(p) ==
    IF p.items.given
    THEN {PyList(<<>>)}
         \cup (IF p.items.ref # NoRef
               THEN {PyList(<<Obj(ref_to_python(p.items.ref), PyStr("v"))>>)}
               ELSE {PyList(<<x>>) : x \in ScalarValues(p.items.type)})
    ELSE IF p.ref # NoRef THEN {Obj(ref_to_python(p.ref), PyStr("v"))}
    ELSE ScalarValues(p.type)

\* the values of property p on the wire ("wire") or in a field ("field")
ValuesOf(p, side) == IF side = "wire" THEN WireValues(p) ELSE FieldValues(p)

AllValues(props, side) == UNION {ValuesOf(props[i], side) : i \in DOMAIN props}

\* an optional field or argument bound to no value, a wire key left out
Missing == [t |-> "missing", v |-> ""]

\* the bindings of a value (or of Missing, for an optional one) to each
\* property, as sequences aligned with props
Bindings(props, side) ==
    {vs \in [DOMAIN props -> AllValues(props, side) \cup {Missing}] :
        \A i \in DOMAIN props :
            \/ vs[i] \in ValuesOf(props[i], side)
            \/ vs[i] = Missing /\ props[i].optional}

\* the JSON object that holds vs[i] under the wire name of props[i]
WireObject(props, vs) ==
    LET present == {i \in DOMAIN props : vs[i] # Missing}
    IN  Json([k \in {props[i].name : i \in present} |->
                 vs[CHOOSE i \in present : props[i].name = k]])

\* the JSON object json without the entry key
Without(json, key) == Json([k \in DOMAIN json.v \ {key} |-> json.v[k]])

\* the JSON objects for props that lack the key of one required property
\* and are schema-valid otherwise
IncompleteObjects(props) ==
    UNION {{Without(WireObject(props, vs), props[i].name) :
               i \in {k \in DOMAIN props : ~props[k].optional}} :
           vs \in Bindings(props, "wire")}

\* the keyword arguments <py_name>=vs[i] of a call, one per bound property
KeywordArgs(props, vs) ==
    LET all == [i \in DOMAIN props |-> [kw |-> py_name(props[i]), val |-> vs[i]]]
        Given(a) == a.val # Missing
    IN  SelectSeq(all, Given)

(***************************************************************************)
(* State                                                                   *)
(***************************************************************************)
NoCode == [kind |-> "none"]

\* no emitted code is running
RtStart == [pc |-> "start", self |-> None, json |-> None, out |-> None,
            src |-> "none"]

\* main() is not running
RunIdle == [pc |-> "idle"]

(***************************************************************************)
(* A type with properties: generation, then the emitted class at run time  *)
(***************************************************************************)
CompositeTypes ==
    {CdpType(<<"T">>, "object", NoItems, <<>>, ps) :
        ps \in PropertyLists(WireNames, MaxProps)}

InitType ==
    /\ ir \in CompositeTypes
    /\ code = NoCode
    /\ rt = RtStart
    /\ run = RunIdle

\* CdpType.generate_code on a type with properties
GenerateType ==
    /\ ir.node = "type"
    /\ code.kind = "none"
    /\ ir.enum = <<>>
    /\ ir.properties # <<>>
    /\ code' = generate_class_code(ir)
    /\ UNCHANGED <<ir, rt, run>>

\* the host program builds an instance: T(<py_name>=<value>, ...)
Construct ==
    /\ code.kind = "class"
    /\ dataclass_ok(code.fields)
    /\ rt.pc = "start"
    /\ \E vs \in Bindings(ir.properties, "field") :
           rt' = [rt EXCEPT !.pc = "constructed",
                            !.self = dataclass_init(code.fields,
                                         KeywordArgs(ir.properties, vs))]
    /\ UNCHANGED <<ir, code, run>>

\* self.to_json()
ToJson ==
    /\ code.kind = "class"
    /\ rt.pc = "constructed"
    /\ ~IsRaise(rt.self)
    /\ rt' = [rt EXCEPT !.pc = "encoded",
                        !.json = class_to_json(code, rt.self),
                        !.src = "to_json"]
    /\ UNCHANGED <<ir, code, run>>

\* a schema-valid JSON object arrives from the browser
Receive ==
    /\ code.kind = "class"
    /\ dataclass_ok(code.fields)
    /\ rt.pc = "start"
    /\ \E vs \in Bindings(ir.properties, "wire") :
           rt' = [rt EXCEPT !.pc = "received",
                            !.json = WireObject(ir.properties, vs),
                            !.src = "wire"]
    /\ UNCHANGED <<ir, code, run>>

\* T.from_json(json)
FromJson ==
    /\ code.kind = "class"
    /\ rt.pc \in {"encoded", "received"}
    /\ ~IsRaise(rt.json)
    /\ rt' = [rt EXCEPT !.pc = "decoded",
                        !.out = class_from_json(code, rt.json)]
    /\ UNCHANGED <<ir, code, run>>

\* a JSON object without the key of a required property arrives
ReceiveIncomplete ==
    /\ code.kind = "class"
    /\ dataclass_ok(code.fields)
    /\ rt.pc = "start"
    /\ \E json \in IncompleteObjects(ir.properties) :
           rt' = [rt EXCEPT !.pc = "received", !.json = json,
                            !.src = "incomplete"]
    /\ UNCHANGED <<ir, code, run>>

NextType ==
    GenerateType \/ Construct \/ ToJson \/ Receive \/ ReceiveIncomplete
        \/ FromJson

SpecType == InitType /\ [][NextType]_vars

(***************************************************************************)
(* Claims on the class emitted for a type with properties                  *)
(***************************************************************************)
\* C1: for every value v of an emitted class, from_json(v.to_json()) equals
\* v, whatever the properties' shapes, optionality and wire names.
C1_RoundTrip ==
    (rt.pc = "decoded" /\ rt.src = "to_json") => rt.out = rt.self

\* C7: the JSON object returned by to_json has no entry under the wire name
\* of an optional property whose field is None, and has an entry under the
\* wire name of every required property.
C7_OptionalOmitted ==
    rt.pc = "encoded" =>
        /\ ~IsRaise(rt.json)
        /\ \A i \in DOMAIN ir.properties :
               LET p == ir.properties[i]
               IN  /\ (p.optional /\ rt.self.v[py_name(p)] = None)
                          => p.name \notin DOMAIN rt.json.v
                   /\ ~p.optional => p.name \in DOMAIN rt.json.v

\* C7's case: to_json has run on an instance with a required field and an
\* optional field that is None.
C7_Witness ==
    /\ rt.pc = "encoded"
    /\ \E i, j \in DOMAIN ir.properties :
           /\ ~ir.properties[i].optional
           /\ ir.properties[j].optional
           /\ rt.self.v[py_name(ir.properties[j])] = None
           /\ DOMAIN rt.json.v = {ir.properties[i].name}

\* C8: from_json on a JSON object without the wire key of an optional
\* property returns an instance whose field for that property is None.
C8_MissingOptionalDecodes ==
    (rt.pc = "decoded" /\ rt.src = "wire") =>
        \A i \in DOMAIN ir.properties :
            LET p == ir.properties[i]
            IN  (p.optional /\ p.name \notin DOMAIN rt.json.v) =>
                    /\ ~IsRaise(rt.out)
                    /\ rt.out.v[py_name(p)] = None

(***************************************************************************)
(* CdpParameter, CdpReturn, CdpCommand and the generator function emitted  *)
(* for a command                                                           *)
(***************************************************************************)
\* CdpParameter.generate_code: "<py_name>: <type>", and " = None" when the
\* parameter is optional
param_generate_code(p) ==
    [name |-> py_name(p), annotation |-> py_annotation(p), default |-> p.optional]

\* CdpReturn.generate_return: the expression of CdpProperty.generate_from_json
\* on the dict named json (dict_ is not used), inside a call of the primitive
\* type when self.type names one
generate_return(r, dict_) ==
    [generate_from_json(r, "json") EXCEPT !.wrap = CdpPrimitiveType(r.type)]

\* CdpCommand.from_json (description and experimental left out: they only
\* feed the docstring)
CdpCommand(name, parameters, returns, domain) ==
    [node |-> "command", name |-> name, parameters |-> parameters,
     returns |-> returns, domain |-> domain]

\* method_name built from the Python names instead of the raw names
method_name_snake(domain, name) == underscore(domain) \o <<".">> \o underscore(name)

\* the text '<domain>.<name>' of the emitted 'method' entry
method_name(domain, name) == domain \o <<".">> \o name

\* command_generate_code with the yield emitted in a loop: the unit asks for
\* a second response before it returns
command_generate_code_yield_again(c) ==
    [kind |-> "command",
     name |-> underscore(c.name),
     params |-> [i \in DOMAIN c.parameters |-> param_generate_code(c.parameters[i])],
     body |->
         (IF c.parameters # <<>> THEN <<[op |-> "params_init"]>> ELSE <<>>)
         \o [i \in DOMAIN c.parameters |->
                [op |-> "assign",
                 stmt |-> generate_to_json(c.parameters[i], "params", FALSE)]]
         \o <<[op |-> "cmd_dict",
               method |-> method_name(c.domain, c.name),
               params |-> c.parameters # <<>>]>>
         \o <<[op |-> "yield"], [op |-> "yield"]>>
         \o (IF Len(c.returns) = 0 THEN <<>>
             ELSE <<[op |-> "return",
                     exprs |-> [i \in DOMAIN c.returns |->
                                   generate_return(c.returns[i], "json")]]>>)]

\* generate_code with the params dict made and put into the request for
\* every command, with or without parameters
command_generate_code_params_always(c) ==
    [kind |-> "command",
     name |-> underscore(c.name),
     params |-> [i \in DOMAIN c.parameters |-> param_generate_code(c.parameters[i])],
     body |->
         <<[op |-> "params_init"]>>
         \o [i \in DOMAIN c.parameters |->
                [op |-> "assign",
                 stmt |-> generate_to_json(c.parameters[i], "params", FALSE)]]
         \o <<[op |-> "cmd_dict",
               method |-> method_name(c.domain, c.name),
               params |-> TRUE]>>
         \o <<[op |-> "yield"]>>
         \o (IF Len(c.returns) = 0 THEN <<>>
             ELSE <<[op |-> "return",
                     exprs |-> [i \in DOMAIN c.returns |->
                                   generate_return(c.returns[i], "json")]]>>)]

\* CdpCommand.generate_code: the signature and the statements of the body
command_generate_code(c) ==
    [kind |-> "command",
     name |-> underscore(c.name),
     params |-> [i \in DOMAIN c.parameters |-> param_generate_code(c.parameters[i])],
     body |->
         (IF c.parameters # <<>> THEN <<[op |-> "params_init"]>> ELSE <<>>)
         \o [i \in DOMAIN c.parameters |->
                [op |-> "assign",
                 stmt |-> generate_to_json(c.parameters[i], "params", FALSE)]]
         \o <<[op |-> "cmd_dict",
               method |-> method_name(c.domain, c.name),
               params |-> c.parameters # <<>>]>>
         \o <<[op |-> "yield"]>>
         \o (IF Len(c.returns) = 0 THEN <<>>
             ELSE <<[op |-> "return",
                     exprs |-> [i \in DOMAIN c.returns |->
                                   generate_return(c.returns[i], "json")]]>>)]

\* a Python tuple
PyTuple(s) == [t |-> "tuple", v |-> s]

\* The frame of the generator: ip is the next statement, params, cmd_dict and
\* json its local variables, status what the last run ended with ("yield",
\* "return", "raise"), out the yielded or returned value or the exception.
NewFrame ==
    [ip |-> 1, params |-> None, cmd_dict |-> None, json |-> None,
     status |-> "created", out |-> None]

\* the 'return <expr>, <expr>, ...' statement
exec_return(s, fr) ==
    LET vals == [i \in DOMAIN s.exprs |-> eval_from_json(s.exprs[i], fr.json)]
    IN  IF FirstRaise(vals) # None
        THEN [fr EXCEPT !.status = "raise", !.out = FirstRaise(vals)]
        ELSE [fr EXCEPT !.status = "return",
                        !.out = IF Len(vals) = 1 THEN vals[1] ELSE PyTuple(vals)]

\* run the body from fr.ip, with the arguments args, to the next yield, to a
\* return (falling off the end returns None) or to an exception
RECURSIVE run_body(_, _, _)
run_body(body, fr, args) ==
    IF fr.ip > Len(body)
    THEN [fr EXCEPT !.status = "return", !.out = None]
    ELSE LET s == body[fr.ip]
             next == [fr EXCEPT !.ip = fr.ip + 1]
         IN  CASE s.op = "params_init" ->
                      run_body(body, [next EXCEPT !.params = Json(EmptyMap)], args)
               [] s.op = "assign" ->
                      LET d == exec_to_json(s.stmt, args, fr.params)
                      IN  IF IsRaise(d)
                          THEN [fr EXCEPT !.status = "raise", !.out = d]
                          ELSE run_body(body, [next EXCEPT !.params = d], args)
               [] s.op = "cmd_dict" ->
                      run_body(body,
                               [next EXCEPT !.cmd_dict =
                                   IF s.params
                                   THEN [method |-> s.method, params |-> fr.params]
                                   ELSE [method |-> s.method]],
                               args)
               [] s.op = "yield" ->
                      [next EXCEPT !.status = "yield", !.out = fr.cmd_dict]
               [] OTHER -> exec_return(s, fr)

(***************************************************************************)
(* A command: generation, then one invocation of the emitted unit, driven  *)
(* by next() and send()                                                    *)
(***************************************************************************)
\* bounds of the inputs
MaxParams == 2

MaxReturns == 2

\* how many times the driver tries to resume a finished generator
MaxResume == 2

Domain_DOM == <<"D", "O", "M">>

Name_getNode == <<"g", "e", "t", "N", "o", "d", "e">>

ParamNames == {Name_id, Name_nodeId}

ReturnNames == {Name_id, Name_value}

ParamShapes ==
    {[type |-> k, ref |-> NoRef, items |-> NoItems] :
        k \in {"string", "integer", "boolean"}}
    \cup {[type |-> "", ref |-> Ref_DOM_Node, items |-> NoItems]}
    \cup {[type |-> "array", ref |-> NoRef, items |-> CdpItems("string", NoRef)]}
    \cup {[type |-> "array", ref |-> NoRef, items |-> CdpItems("", Ref_Node)]}

ReturnShapes ==
    {[type |-> k, ref |-> NoRef, items |-> NoItems] : k \in PrimitiveNames}
    \cup {[type |-> "", ref |-> Ref_DOM_Node, items |-> NoItems]}
    \cup {[type |-> "array", ref |-> NoRef, items |-> CdpItems("string", NoRef)]}
    \cup {[type |-> "array", ref |-> NoRef, items |-> CdpItems("", Ref_Node)]}

\* the sequences of 0..n properties of the given shapes with distinct wire
\* names and distinct Python names
ShapedLists(names, shapes, n) ==
    {ps \in UNION {[1..k -> {CdpProperty(nm, s.type, s.ref, s.items, o) :
                              nm \in names, s \in shapes, o \in BOOLEAN}] :
                   k \in 0..n} :
        \A i, j \in DOMAIN ps :
            i # j => ps[i].name # ps[j].name /\ py_name(ps[i]) # py_name(ps[j])}

\* commands with parameters and no returns, and commands with returns and
\* at most one parameter: the request is built from the parameters alone,
\* the result from the returns alone
Commands ==
    {CdpCommand(Name_getNode, ps, <<>>, Domain_DOM) :
        ps \in ShapedLists(ParamNames, ParamShapes, MaxParams)}
    \cup {CdpCommand(Name_getNode, ps, rs, Domain_DOM) :
            ps \in {<<>>, <<CdpProperty(Name_nodeId, "string", NoRef, NoItems, TRUE)>>},
            rs \in ShapedLists(ReturnNames, ReturnShapes, MaxReturns)}

\* the responses delivered to a command: a schema-valid object for its
\* returns and, for a command without returns, also an object it ignores
Responses(c) ==
    {WireObject(c.returns, vs) : vs \in Bindings(c.returns, "wire")}
    \cup (IF c.returns = <<>>
          THEN {Json([k \in {Name_id} |-> PyStr("v")])}
          ELSE {})

\* no invocation yet
RtCommand ==
    [pc |-> "start", args |-> None, frame |-> NewFrame, yields |-> 0,
     accepted |-> 0, refused |-> 0, request |-> None, response |-> None]

InitCommand ==
    /\ ir \in Commands
    /\ code = NoCode
    /\ rt = RtCommand
    /\ run = RunIdle

\* CdpCommand.generate_code
GenerateCommand ==
    /\ ir.node = "command"
    /\ code.kind = "none"
    /\ code' = command_generate_code(ir)
    /\ UNCHANGED <<ir, rt, run>>

\* The host calls the emitted function with keyword arguments: Python binds
\* them and returns a generator object; no statement of the body has run.
Call ==
    /\ code.kind = "command"
    /\ defaults_last(code.params)
    /\ rt.pc = "start"
    /\ \E vs \in Bindings(ir.parameters, "field") :
           LET args == bind_keywords(code.params, KeywordArgs(ir.parameters, vs))
           IN  /\ ~IsRaise(args)
               /\ rt' = [rt EXCEPT !.pc = "created", !.args = args]
    /\ UNCHANGED <<ir, code, run>>

\* the state of the generator after a run of its body ended as frame fr
Resumed(fr) ==
    [rt EXCEPT !.frame = fr,
               !.pc = IF fr.status = "yield" THEN "suspended" ELSE "done",
               !.yields = IF fr.status = "yield" THEN rt.yields + 1 ELSE rt.yields,
               !.request = IF fr.status = "yield" THEN fr.out ELSE rt.request]

\* next(gen) on the new generator: the body runs to its first yield
Start ==
    /\ code.kind = "command"
    /\ rt.pc = "created"
    /\ rt' = Resumed(run_body(code.body, rt.frame, rt.args.v))
    /\ UNCHANGED <<ir, code, run>>

\* gen.send(response) on the suspended generator: the response becomes the
\* value of the yield expression, bound to json, and the body runs on
Send ==
    /\ code.kind = "command"
    /\ rt.pc = "suspended"
    /\ \E resp \in Responses(ir) :
           rt' = [Resumed(run_body(code.body, [rt.frame EXCEPT !.json = resp],
                                   rt.args.v))
                  EXCEPT !.accepted = rt.accepted + 1, !.response = resp]
    /\ UNCHANGED <<ir, code, run>>

\* gen.send(response) on the finished generator raises StopIteration: the
\* response is not taken and nothing runs
SendDone ==
    /\ code.kind = "command"
    /\ rt.pc = "done"
    /\ rt.refused < MaxResume
    /\ rt' = [rt EXCEPT !.refused = rt.refused + 1]
    /\ UNCHANGED <<ir, code, run>>

NextCommand == GenerateCommand \/ Call \/ Start \/ Send \/ SendDone

SpecCommand == InitCommand /\ [][NextCommand]_vars

(***************************************************************************)
(* Claims on the emitted command unit                                      *)
(***************************************************************************)
\* C3: an invocation of an emitted command unit yields exactly one request;
\* the first response takes it from suspended to done, and a finished unit
\* yields no second request and takes no second response.
C3_SingleShot ==
    /\ rt.yields <= 1
    /\ rt.accepted <= 1
    /\ rt.pc = "suspended" => rt.yields = 1 /\ rt.accepted = 0
    /\ rt.pc = "done" => rt.yields = 1 /\ rt.accepted = 1

\* C3's case: the unit is done and a further response has been refused.
C3_Witness ==
    /\ rt.pc = "done"
    /\ rt.yields = 1
    /\ rt.accepted = 1
    /\ rt.refused >= 1

\* the wire form of the argument v of parameter p by the to-wire rules:
\* a scalar as it is, an instance through its wire value, a list per element
ExpectedWire(p, v) ==
    IF p.items.given
    THEN (IF p.items.ref # NoRef
          THEN PyList([i \in DOMAIN v.v |-> v.v[i].v.raw])
          ELSE v)
    ELSE (IF p.ref # NoRef THEN v.v.raw ELSE v)

\* C4: the yielded request has method "<domain>.<name>" from the raw names,
\* and its params hold, under the wire name, the wire form of every argument
\* that is not None, and no entry for an optional parameter that is None.
C4_Request ==
    rt.pc = "suspended" =>
        /\ rt.request.method = ir.domain \o <<".">> \o ir.name
        /\ ir.parameters # <<>> =>
               LET given == {i \in DOMAIN ir.parameters :
                                rt.args.v[py_name(ir.parameters[i])] # None}
               IN  /\ \A i \in DOMAIN ir.parameters :
                          ~ir.parameters[i].optional => i \in given
                   /\ DOMAIN rt.request.params.v
                          = {ir.parameters[i].name : i \in given}
                   /\ \A i \in given :
                          rt.request.params.v[ir.parameters[i].name]
                              = ExpectedWire(ir.parameters[i],
                                             rt.args.v[py_name(ir.parameters[i])])

\* C4's case: parameters [id required, nodeId optional], called with a value
\* for id only; the request holds 'DOM.getNode' and params with the key id.
C4_Witness ==
    /\ rt.pc = "suspended"
    /\ Len(ir.parameters) = 2
    /\ ir.parameters[1].name = Name_id
    /\ ~ir.parameters[1].optional
    /\ ir.parameters[2].optional
    /\ rt.args.v[py_name(ir.parameters[2])] = None
    /\ rt.request.method = <<"D", "O", "M", ".", "g", "e", "t", "N", "o", "d", "e">>
    /\ DOMAIN rt.request.params.v = {Name_id}

\* the value of the returns entry r in the response by the from-wire rules
ExpectedValue(r, resp) ==
    IF r.name \notin DOMAIN resp.v THEN None
    ELSE LET x == resp.v[r.name]
         IN  IF r.items.given
             THEN (IF r.items.ref # NoRef
                   THEN PyList([i \in DOMAIN x.v |->
                                   Obj(ref_to_python(r.items.ref), x.v[i])])
                   ELSE x)
             ELSE (IF r.ref # NoRef THEN Obj(ref_to_python(r.ref), x) ELSE x)

\* C5: resumed with a response that holds every returns entry, the unit
\* returns None for zero returns, the decoded value for one, and the tuple
\* of the decoded values in schema order for more.
C5_Results ==
    (/\ rt.pc = "done"
     /\ rt.accepted = 1
     /\ \A i \in DOMAIN ir.returns : ir.returns[i].name \in DOMAIN rt.response.v)
    => /\ rt.frame.status = "return"
       /\ rt.frame.out =
              IF Len(ir.returns) = 0 THEN None
              ELSE IF Len(ir.returns) = 1
              THEN ExpectedValue(ir.returns[1], rt.response)
              ELSE PyTuple([i \in DOMAIN ir.returns |->
                               ExpectedValue(ir.returns[i], rt.response)])

\* the expressions of the emitted return statement
ReturnExprs == code.body[Len(code.body)].exprs

\* C6: an optional returns entry whose wire key is missing from the
\* response decodes to None, whatever its scalar kind, reference or list
\* shape.
C6_OptionalReturnMissing ==
    (rt.pc = "done" /\ rt.accepted = 1) =>
        \A i \in DOMAIN ir.returns :
            (ir.returns[i].optional /\ ir.returns[i].name \notin DOMAIN rt.response.v)
                => eval_from_json(ReturnExprs[i], rt.response) = None

(***************************************************************************)
(* CdpParameter as an event field, and CdpEvent                            *)
(***************************************************************************)
\* CdpParameter.generate_decl: "<py_name>: <annotation>" and nothing more,
\* whether or not the parameter is optional
param_generate_decl(p) ==
    [name |-> py_name(p), annotation |-> py_annotation(p), default |-> FALSE]

\* CdpParameter.generate_from_json: "<py_name>=<code>", <code> being the
\* expression of CdpProperty.generate_from_json, inside a call of the
\* primitive type when self.type names one
param_generate_from_json(p, dict_) ==
    [kw |-> py_name(p),
     expr |-> [generate_from_json(p, dict_) EXCEPT
                  !.wrap = CdpPrimitiveType(p.type)]]

\* inflection.camelize(string, uppercase_first_letter=True): the first
\* character, and each character that follows an underscore, in upper case,
\* that underscore dropped
RECURSIVE camelize(_, _)
camelize(word, i) ==
    IF i > Len(word) THEN <<>>
    ELSE IF i = 1 THEN <<UpperChar(word[1])>> \o camelize(word, 2)
    ELSE IF word[i] = "_" /\ i < Len(word)
    THEN <<UpperChar(word[i + 1])>> \o camelize(word, i + 2)
    ELSE <<word[i]>> \o camelize(word, i + 1)

\* CdpEvent.from_json (description left out: it only feeds the docstring)
CdpEvent(name, parameters, domain) ==
    [node |-> "event", name |-> name, parameters |-> parameters,
     domain |-> domain]

\* the text of @event_class('<domain>.<name>')
event_tag(domain, name) == domain \o <<".">> \o name

\* CdpEvent.generate_code with the parameters sorted as a type's properties
\* are, and declared as properties are
event_generate_code_sorted(ev) ==
    LET props == SortByOptional(ev.parameters)
    IN  [kind |-> "event",
         tag |-> event_tag(ev.domain, ev.name),
         id |-> camelize(ev.name, 1),
         fields |-> [i \in DOMAIN props |-> generate_decl(props[i])],
         from_json |-> [i \in DOMAIN ev.parameters |->
                           param_generate_from_json(ev.parameters[i], "json")]]

\* CdpEvent.generate_code: the declarations and the keywords of from_json
\* both follow self.parameters as the schema lists them
event_generate_code(ev) ==
    [kind |-> "event",
     tag |-> event_tag(ev.domain, ev.name),
     id |-> camelize(ev.name, 1),
     fields |-> [i \in DOMAIN ev.parameters |->
                    param_generate_decl(ev.parameters[i])],
     from_json |-> [i \in DOMAIN ev.parameters |->
                       param_generate_from_json(ev.parameters[i], "json")]]

(***************************************************************************)
(* Field order: a type with properties and an event are generated, the     *)
(* emitted dataclass is loaded, and an instance is built                   *)
(***************************************************************************)
Name_A == <<"A">>

Name_B == <<"B">>

Name_C == <<"C">>

Name_D == <<"D">>

Name_E == <<"E">>

FieldNames == {Name_A, Name_B, Name_C, Name_D, Name_E}

Domain_Tracing == <<"T", "r", "a", "c", "i", "n", "g">>

Name_dataCollected ==
    <<"d", "a", "t", "a", "C", "o", "l", "l", "e", "c", "t", "e", "d">>

\* the sequences of 1..MaxFields string properties with distinct names, each
\* required or optional
FieldLists ==
    {ps \in UNION {[1..k -> {CdpProperty(n, "string", NoRef, NoItems, o) :
                                n \in FieldNames, o \in BOOLEAN}] :
                      k \in 1..MaxFields} :
        \A i, j \in DOMAIN ps : i # j => ps[i].name # ps[j].name}

FieldTypes ==
    {CdpType(<<"T">>, "object", NoItems, <<>>, ps) : ps \in FieldLists}

FieldEvents ==
    {CdpEvent(Name_dataCollected, ps, Domain_Tracing) : ps \in FieldLists}

\* the properties of a type, the parameters of an event
Members(node) ==
    IF node.node = "type" THEN node.properties ELSE node.parameters

InitGen ==
    /\ ir \in FieldTypes \cup FieldEvents
    /\ code = NoCode
    /\ rt = RtStart
    /\ run = RunIdle

\* CdpEvent.generate_code
GenerateEvent ==
    /\ ir.node = "event"
    /\ code.kind = "none"
    /\ code' = event_generate_code(ir)
    /\ UNCHANGED <<ir, rt, run>>

\* the emitted module is imported: @dataclass processes the declarations
Load ==
    /\ code.kind \in {"class", "event"}
    /\ rt.pc = "start"
    /\ rt' = [rt EXCEPT !.pc = IF dataclass_ok(code.fields) THEN "loaded"
                                ELSE "load_failed"]
    /\ UNCHANGED <<ir, code, run>>

\* the keyword arguments <py_name>='v' for the members numbered in given
GivenArgs(ps, given) ==
    LET idx == SelectSeq([i \in DOMAIN ps |-> i], LAMBDA i : i \in given)
    IN  [k \in DOMAIN idx |-> [kw |-> py_name(ps[idx[k]]), val |-> PyStr("v")]]

\* the host program builds an instance, giving every required member and
\* some of the optional ones
ConstructGiven ==
    /\ code.kind \in {"class", "event"}
    /\ rt.pc = "loaded"
    /\ LET ps == Members(ir)
           required == {i \in DOMAIN ps : ~ps[i].optional}
       IN  \E chosen \in SUBSET (DOMAIN ps \ required) :
               rt' = [pc |-> "constructed",
                      given |-> {py_name(ps[i]) : i \in required \cup chosen},
                      self |-> dataclass_init(code.fields,
                                   GivenArgs(ps, required \cup chosen)),
                      json |-> None, out |-> None, src |-> "none"]
    /\ UNCHANGED <<ir, code, run>>

NextGen == GenerateType \/ GenerateEvent \/ Load \/ ConstructGiven

SpecGen == InitGen /\ [][NextGen]_vars

(***************************************************************************)
(* Claims about the field order                                            *)
(***************************************************************************)
\* the required members in schema order, then the optional ones in schema
\* order
RequiredThenOptional(props) ==
    SelectSeq(props, LAMBDA p : ~p.optional)
        \o SelectSeq(props, LAMBDA p : p.optional)

\* the names of the emitted field declarations, in the emitted order
FieldOrder == [i \in DOMAIN code.fields |-> code.fields[i].name]

\* the Python names of a sequence of members
PyNames(props) == [i \in DOMAIN props |-> py_name(props[i])]

\* C9: the class emitted for a type with properties declares its fields as
\* all required properties in schema order, then all optional properties in
\* schema order.
C9_FieldOrder ==
    code.kind = "class" =>
        FieldOrder = PyNames(RequiredThenOptional(ir.properties))

\* C9's case: the schema [A optional, B required, C optional, D required]
\* has been generated, and the class declares b, d, a, c.
C9_Witness ==
    /\ code.kind = "class"
    /\ [i \in DOMAIN ir.properties |-> ir.properties[i].name]
           = <<Name_A, Name_B, Name_C, Name_D>>
    /\ [i \in DOMAIN ir.properties |-> ir.properties[i].optional]
           = <<TRUE, FALSE, TRUE, FALSE>>
    /\ FieldOrder = <<<<"b">>, <<"d">>, <<"a">>, <<"c">>>>

\* C10 as stated: the record emitted for an event declares the required
\* parameters in schema order, then the optional ones in schema order, and
\* an instance can be built without the optional ones, which are then None.
C10_EventRequiredFirst ==
    /\ code.kind = "event" =>
           FieldOrder = PyNames(RequiredThenOptional(ir.parameters))
    /\ (code.kind = "event" /\ rt.pc = "constructed") =>
           /\ ~IsRaise(rt.self)
           /\ \A i \in DOMAIN ir.parameters :
                  py_name(ir.parameters[i]) \notin rt.given
                      => rt.self.v[py_name(ir.parameters[i])] = None

\* C10 as the code has it: the record emitted for an event declares the
\* parameters in schema order, required or not, and no field has a default:
\* building an instance succeeds exactly when every parameter is given, the
\* optional ones included.
C10_EventSchemaOrder ==
    /\ code.kind = "event" =>
           /\ FieldOrder = PyNames(ir.parameters)
           /\ \A i \in DOMAIN code.fields : ~code.fields[i].default
    /\ (code.kind = "event" /\ rt.pc = "constructed") =>
           (rt.self = Raise("TypeError")
                <=> \E i \in DOMAIN ir.parameters :
                        py_name(ir.parameters[i]) \notin rt.given)

\* C10's case: the event with parameters [A optional, B required] declares
\* a, b, and building it with b alone has raised TypeError.
C10_Witness ==
    /\ code.kind = "event"
    /\ Len(ir.parameters) = 2
    /\ ir.parameters[1].name = Name_A /\ ir.parameters[1].optional
    /\ ir.parameters[2].name = Name_B /\ ~ir.parameters[2].optional
    /\ FieldOrder = <<<<"a">>, <<"b">>>>
    /\ rt.pc = "constructed"
    /\ rt.given = {<<"b">>}
    /\ rt.self = Raise("TypeError")

(***************************************************************************)
(* CdpType.generate_code and CdpDomain                                     *)
(***************************************************************************)
\* an exception that leaves a generate_* method
EmitError(e) == [kind |-> "raise", error |-> e]

\* CdpType.generate_primitive_code: class <id>(<superclass>) whose to_json
\* returns self and whose from_json returns cls(json); the lookup of an
\* unknown type name in CdpPrimitiveType is a KeyError
generate_primitive_code(t) ==
    LET py_type ==
            IF t.items.given
            THEN (IF t.items.ref # NoRef
                  THEN [list |-> TRUE, ref |-> ref_to_python(t.items.ref),
                        prim |-> ""]
                  ELSE [list |-> TRUE, ref |-> NoRef,
                        prim |-> CdpPrimitiveType(t.items.type)])
            ELSE [list |-> FALSE, ref |-> NoRef,
                  prim |-> CdpPrimitiveType(t.type)]
    IN  IF py_type.ref = NoRef /\ py_type.prim = "" THEN EmitError("KeyError")
        ELSE [kind |-> "primitive",
              id |-> t.id,
              py_type |-> py_type,
              superclass |-> IF py_type.list THEN "list" ELSE py_type.prim]

\* generate_enum_code with the snake-case names left in lower case
generate_enum_code_lower(t) ==
    [kind |-> "enum",
     id |-> t.id,
     members |-> [i \in DOMAIN t.enum |->
                     [name |-> underscore(t.enum[i]), value |-> t.enum[i]]]]

\* CdpType.generate_enum_code: class <id>(enum.Enum) with one member
\* <UPPER_SNAKE> = "<literal>" per entry of self.enum
generate_enum_code(t) ==
    [kind |-> "enum",
     id |-> t.id,
     members |-> [i \in DOMAIN t.enum |->
                     [name |-> upper(underscore(t.enum[i])),
                      value |-> t.enum[i]]]]

\* generate_code that looks at the properties before the enum
type_generate_code_properties_first(t) ==
    IF t.properties # <<>> THEN generate_class_code(t)
    ELSE IF t.enum # <<>> THEN generate_enum_code(t)
    ELSE generate_primitive_code(t)

\* CdpType.generate_code: enum first, then properties, else primitive
type_generate_code(t) ==
    IF t.enum # <<>> THEN generate_enum_code(t)
    ELSE IF t.properties # <<>> THEN generate_class_code(t)
    ELSE generate_primitive_code(t)

\* CdpDomain.from_json (dependencies left out: generate_code ignores them)
CdpDomain(domain, experimental, types, commands, events) ==
    [node |-> "domain", domain |-> domain, experimental |-> experimental,
     types |-> types, commands |-> commands, events |-> events]

\* CdpDomain.module
module(d) == underscore(d.domain)

\* item.generate_code() of a type, a command or an event
item_generate_code(item) ==
    CASE item.node = "type" -> type_generate_code(item)
      [] item.node = "command" -> command_generate_code(item)
      [] OTHER -> event_generate_code(item)

\* CdpDomain.generate_code: the header, then the code of the types, the
\* commands and the events in that order; an exception of an item leaves
\* the method
domain_generate_code(d) ==
    LET items == d.types \o d.commands \o d.events
        codes == [i \in DOMAIN items |-> item_generate_code(items[i])]
        failed == {i \in DOMAIN codes : codes[i].kind = "raise"}
    IN  IF failed # {}
        THEN codes[CHOOSE i \in failed : \A j \in failed : i <= j]
        ELSE [kind |-> "module", domain |-> d.domain,
              experimental |-> d.experimental, items |-> codes]

(***************************************************************************)
(* The output directory                                                    *)
(***************************************************************************)
Name_init_py == <<"_", "_", "i", "n", "i", "t", "_", "_", ".", "p", "y">>

Name_py_typed == <<"p", "y", ".", "t", "y", "p", "e", "d">>

Name_util_py == <<"u", "t", "i", "l", ".", "p", "y">>

Name_dom_py == <<"d", "o", "m", ".", "p", "y">>

Name_tracing == <<"t", "r", "a", "c", "i", "n", "g">>

Name_events_py == <<"e", "v", "e", "n", "t", "s", ".", "p", "y">>

\* a file of a directory
File(name, content) == [name |-> name, content |-> content]

\* what an earlier run, or a person, has left in a file
OldContent == [kind |-> "old"]

\* a file that open('w') or touch() has created or truncated
EmptyContent == [kind |-> "empty"]

\* write_file that leaves a file that is already there as it is
write_file_keep(dir, name, content) ==
    IF \E f \in dir.files : f.name = name THEN dir
    ELSE [dir EXCEPT !.files = @ \cup {File(name, content)}]

\* path.open('w') followed by write(content): the file is replaced
write_file(dir, name, content) ==
    [dir EXCEPT !.files = {f \in @ : f.name # name} \cup {File(name, content)}]

\* path.touch(): the file is created empty unless it exists
touch(dir, name) ==
    IF \E f \in dir.files : f.name = name THEN dir
    ELSE [dir EXCEPT !.files = @ \cup {File(name, EmptyContent)}]

\* clear_dirs: __init__.py is unlinked if it is there, every subdirectory
\* is removed with all it holds, the other files of the directory stay
clear_dirs(dir) ==
    [dir EXCEPT !.files = {f \in @ : f.name # Name_init_py},
                !.subdirs = {}]

\* the output directory as main() may find it: missing, or holding any of
\* an index, a module, a hand-written module, the marker, a subpackage
OutputDirs ==
    {[exists |-> FALSE, files |-> {}, subdirs |-> {}]}
    \cup {[exists |-> TRUE, files |-> fs, subdirs |-> ds] :
             fs \in SUBSET {File(n, OldContent) :
                               n \in {Name_init_py, Name_dom_py, Name_util_py,
                                      Name_py_typed}},
             ds \in SUBSET {[name |-> Name_tracing,
                             files |-> {File(Name_events_py, OldContent)}]}}

(***************************************************************************)
(* parse(), generate_init() and main()                                     *)
(***************************************************************************)
\* the relative order of the code points of the characters in names
CodePoints ==
    <<"0", "1", "2", "3", "4", "5", "6", "7", "8", "9">> \o UpperChars
        \o <<"_">> \o LowerChars

ord(c) == CHOOSE i \in DOMAIN CodePoints : CodePoints[i] = c

\* a < b on str
RECURSIVE str_lt(_, _)
str_lt(a, b) ==
    IF b = <<>> THEN FALSE
    ELSE IF a = <<>> THEN TRUE
    ELSE IF a[1] = b[1] THEN str_lt(Tail(a), Tail(b))
    ELSE ord(a[1]) < ord(b[1])

\* one step of the stable sort on the key 'domain'
InsertByDomain(sorted, d) ==
    LET later == {i \in DOMAIN sorted : str_lt(d.domain, sorted[i].domain)}
        at == IF later = {} THEN Len(sorted) + 1
              ELSE CHOOSE i \in later : \A j \in later : i <= j
    IN  SubSeq(sorted, 1, at - 1) \o <<d>> \o SubSeq(sorted, at, Len(sorted))

\* domains.sort(key=operator.attrgetter('domain'))
RECURSIVE SortByDomain(_)
SortByDomain(domains) ==
    IF domains = <<>> THEN <<>>
    ELSE InsertByDomain(SortByDomain(SubSeq(domains, 1, Len(domains) - 1)),
                        domains[Len(domains)])

\* a JSON protocol description
Document(major, minor, domains) ==
    [version |-> [major |-> major, minor |-> minor], domains |-> domains]

\* parse without the assertion on the version
parse_any_version(schema) == PyList(schema.domains)

\* parse: the assertion on the version, then one CdpDomain per domain node
parse(schema) ==
    IF <<schema.version.major, schema.version.minor>> # <<"1", "3">>
    THEN Raise("AssertionError")
    ELSE PyList(schema.domains)

\* generate_init: the header and one 'import cdp.<module>' per domain
generate_init(domains) ==
    [kind |-> "init", imports |-> [i \in DOMAIN domains |-> module(domains[i])]]

\* <module>.py
module_path(d) == module(d) \o <<".", "p", "y">>

\* bound of the inputs: domains per protocol description
MaxDomains == 2

Domain_Animation == <<"A", "n", "i", "m", "a", "t", "i", "o", "n">>

Domain_Runtime == <<"R", "u", "n", "t", "i", "m", "e">>

\* a type without properties over a primitive type
Type_NodeId ==
    CdpType(<<"N", "o", "d", "e", "I", "d">>, "integer", NoItems, <<>>, <<>>)

\* a type without properties whose type name CdpPrimitiveType does not have
Type_Blob ==
    CdpType(<<"B", "l", "o", "b">>, "binary", NoItems, <<>>, <<>>)

\* a domain name that differs from DOM and has the same snake-case form
Domain_Dom == <<"D", "o", "m">>

Name_documentUpdated ==
    <<"d", "o", "c", "u", "m", "e", "n", "t", "U", "p", "d", "a", "t", "e", "d">>

\* two events of the domain DOM with one name
Event_documentUpdated == CdpEvent(Name_documentUpdated, <<>>, Domain_DOM)

Event_documentUpdated_value ==
    CdpEvent(Name_documentUpdated,
             <<CdpProperty(Name_value, "string", NoRef, NoItems, FALSE)>>,
             Domain_DOM)

BrowserDomains ==
    {CdpDomain(Domain_DOM, FALSE, <<t>>, <<>>, <<>>) :
        t \in {Type_NodeId, Type_Blob}}
    \cup {CdpDomain(Domain_DOM, FALSE, <<>>, <<>>, evs) :
              evs \in {<<Event_documentUpdated>>,
                       <<Event_documentUpdated, Event_documentUpdated_value>>}}
    \cup {CdpDomain(Domain_Animation, TRUE, <<>>, <<>>, <<>>)}

JsDomains ==
    {CdpDomain(Domain_Runtime, FALSE, <<t>>, <<>>, <<>>) :
        t \in {Type_NodeId, Type_Blob}}
    \cup {CdpDomain(Domain_Dom, FALSE, <<Type_NodeId>>, <<>>, <<>>)}

\* the sequences of 0..n domains with distinct names
DomainLists(ds, n) ==
    {l \in UNION {[1..k -> ds] : k \in 0..n} :
        \A i, j \in DOMAIN l : i # j => l[i].domain # l[j].domain}

Versions == {<<"1", "3">>, <<"1", "2">>}

Documents(ds) ==
    {Document(v[1], v[2], l) : v \in Versions, l \in DomainLists(ds, MaxDomains)}

\* json_paths: browser_protocol.json, then js_protocol.json
JsonPaths == {<<b, j>> : b \in Documents(BrowserDomains), j \in Documents(JsDomains)}

\* main() is entered: run.before keeps the output directory as it was found
InitMain ==
    /\ ir \in {[node |-> "schema", docs |-> docs] : docs \in JsonPaths}
    /\ code = NoCode
    /\ rt = RtStart
    /\ run \in {[pc |-> "start", dir |-> d, before |-> d, next |-> 1,
                 domains |-> <<>>, error |-> None] : d \in OutputDirs}

\* output_path.mkdir(exist_ok=True)
Mkdir ==
    /\ run.pc = "start"
    /\ run' = [run EXCEPT !.pc = "clear", !.dir.exists = TRUE]
    /\ UNCHANGED <<ir, code, rt>>

\* clear_dirs(output_path)
ClearDirs ==
    /\ run.pc = "clear"
    /\ run' = [run EXCEPT !.pc = "parse", !.dir = clear_dirs(@)]
    /\ UNCHANGED <<ir, code, rt>>

\* the modules of the domains ds written into dir, one after the other
RECURSIVE write_modules(_, _)
write_modules(dir, ds) ==
    IF ds = <<>> THEN dir
    ELSE LET text == domain_generate_code(Head(ds))
         IN  write_modules(write_file(dir, module_path(Head(ds)),
                                      IF text.kind = "raise" THEN EmptyContent
                                      ELSE text),
                           Tail(ds))

\* the loop over json_paths with the modules of each description written
\* as soon as that description is parsed
Parse_and_write ==
    /\ run.pc = "parse"
    /\ run.next <= Len(ir.docs)
    /\ LET parsed == parse(ir.docs[run.next])
       IN  run' = IF IsRaise(parsed)
                  THEN [run EXCEPT !.pc = "failed", !.error = parsed]
                  ELSE [run EXCEPT !.next = @ + 1,
                                   !.domains = @ \o parsed.v,
                                   !.dir = write_modules(@, parsed.v)]
    /\ UNCHANGED <<ir, code, rt>>

\* one turn of 'for json_path in json_paths: domains.extend(parse(...))'; a
\* failed assertion ends main()
Parse ==
    /\ run.pc = "parse"
    /\ run.next <= Len(ir.docs)
    /\ LET parsed == parse(ir.docs[run.next])
       IN  run' = IF IsRaise(parsed)
                  THEN [run EXCEPT !.pc = "failed", !.error = parsed]
                  ELSE [run EXCEPT !.next = @ + 1,
                                   !.domains = @ \o parsed.v]
    /\ UNCHANGED <<ir, code, rt>>

\* domains.sort(key=operator.attrgetter('domain'))
Sort ==
    /\ run.pc = "parse"
    /\ run.next > Len(ir.docs)
    /\ run' = [run EXCEPT !.pc = "write", !.next = 1,
                          !.domains = SortByDomain(@)]
    /\ UNCHANGED <<ir, code, rt>>

\* one turn of 'for domain in domains': module_path.open('w') creates or
\* truncates the file, then domain.generate_code() is evaluated and
\* written; an exception of generate_code ends main() with the file empty
WriteModule ==
    /\ run.pc = "write"
    /\ run.next <= Len(run.domains)
    /\ LET d == run.domains[run.next]
           text == domain_generate_code(d)
       IN  run' = IF text.kind = "raise"
                  THEN [run EXCEPT
                           !.pc = "failed",
                           !.error = Raise(text.error),
                           !.dir = write_file(@, module_path(d), EmptyContent)]
                  ELSE [run EXCEPT
                           !.next = @ + 1,
                           !.dir = write_file(@, module_path(d), text)]
    /\ UNCHANGED <<ir, code, rt>>

\* generate_init(init_path, domains)
GenerateInit ==
    /\ run.pc = "write"
    /\ run.next > Len(run.domains)
    /\ run' = [run EXCEPT
                  !.pc = "touch",
                  !.dir = write_file(@, Name_init_py, generate_init(run.domains))]
    /\ UNCHANGED <<ir, code, rt>>

\* py_typed_path.touch(), and main() returns
TouchPyTyped ==
    /\ run.pc = "touch"
    /\ run' = [run EXCEPT !.pc = "done", !.dir = touch(@, Name_py_typed)]
    /\ UNCHANGED <<ir, code, rt>>

NextMain ==
    Mkdir \/ ClearDirs \/ Parse \/ Sort \/ WriteModule \/ GenerateInit
        \/ TouchPyTyped

SpecMain == InitMain /\ [][NextMain]_vars

(***************************************************************************)
(* Claims about the generation run                                         *)
(***************************************************************************)
\* C2: a generation run that fails, on the version of a protocol
\* description or while a domain is emitted, leaves the output directory as
\* it was before the run: nothing that was there is removed, and no module
\* of the run is there.
C2_FailedRunLeavesDirectory ==
    run.pc = "failed" =>
        /\ run.dir.files = run.before.files
        /\ run.dir.subdirs = run.before.subdirs

(***************************************************************************)
(* The class emitted for an enum type, at run time                         *)
(***************************************************************************)
\* class <id>(enum.Enum): the class body is executed when the module is
\* imported, and a member name that is assigned twice is a TypeError
enum_class_ok(cls) ==
    \A i, j \in DOMAIN cls.members :
        i # j => cls.members[i].name # cls.members[j].name

\* the member of the class cls made by the line <name> = "<value>"
Member(cls, m) ==
    [t |-> "member", v |-> [cls |-> cls.id, name |-> m.name, value |-> m.value]]

\* from_json that also finds a member by its name, as cls[json] would
enum_from_json_by_name(cls, json) ==
    LET hits == {i \in DOMAIN cls.members :
                    cls.members[i].value = json \/ cls.members[i].name = json}
    IN  IF hits = {} THEN Raise("ValueError")
        ELSE Member(cls, cls.members[CHOOSE i \in hits : \A j \in hits : i <= j])

\* the emitted from_json(cls, json): return cls(json).  enum.Enum looks the
\* member up by value, the first one defined with that value, and raises
\* ValueError when there is none.
enum_from_json(cls, json) ==
    LET hits == {i \in DOMAIN cls.members : cls.members[i].value = json}
    IN  IF hits = {} THEN Raise("ValueError")
        ELSE Member(cls, cls.members[CHOOSE i \in hits : \A j \in hits : i <= j])

\* to_json that returns the member's name, not its value
enum_to_json_name(self) == self.v.name

\* the emitted to_json(self): return self.value
enum_to_json(self) == self.v.value

(***************************************************************************)
(* A type of any shape: generation, then the emitted enum at run time      *)
(***************************************************************************)
\* bound of the inputs: literals per enum
MaxLiterals == 3

Lit_none == <<"n", "o", "n", "e">>

Lit_relatedElement ==
    <<"r", "e", "l", "a", "t", "e", "d", "E", "l", "e", "m", "e", "n", "t">>

Lit_a_dash_b == <<"a", "-", "b">>

Lit_a_b == <<"a", "_", "b">>

Lit_aB == <<"a", "B">>

Literals == {Lit_none, Lit_relatedElement, Lit_a_dash_b, Lit_a_b, Lit_aB}

\* strings that may arrive on the wire: the literals, the identifier of one,
\* and a string that is neither
WireStrings ==
    Literals \cup {<<"N", "O", "N", "E">>, <<"o", "t", "h", "e", "r">>}

\* the lists of 1..MaxLiterals distinct literals
EnumLists ==
    {l \in UNION {[1..k -> Literals] : k \in 1..MaxLiterals} :
        \A i, j \in DOMAIN l : i # j => l[i] # l[j]}

\* the property lists of the types: none, one, two
(***************************************************************************)
(* The class generate_primitive_code emits, at run time                    *)
(***************************************************************************)
\* list(x); the strings of the inputs have at most one character
py_list(x) ==
    CASE x.t = "list" -> x
      [] x.t = "str" -> PyList(IF x.v = "" THEN <<>> ELSE <<PyStr(x.v)>>)
      [] x.t = "dict" -> IF x.v = "{}" THEN PyList(<<>>) ELSE Raise("TypeError")
      [] OTHER -> Raise("TypeError")

\* The outcomes of executing "class T(superclass):".  bool is not an
\* acceptable base type in any build; typing.Any is one from Python 3.11 on
\* and raises TypeError before, so both outcomes are kept for it.
primitive_class_ok(c) ==
    CASE c.superclass = "bool" -> {FALSE}
      [] c.superclass = "typing.Any" -> {TRUE, FALSE}
      [] OTHER -> {TRUE}

\* the plain value an instance of an emitted class is, as its superclass
raw_of(x) == IF x.t = "obj" THEN x.v.raw ELSE x

\* cls(json): the constructor of the superclass makes the value; a subclass
\* of typing.Any inherits object's constructor, which takes no argument
primitive_new(c, json) ==
    LET v == IF c.superclass = "list" THEN py_list(raw_of(json))
             ELSE CallType(c.superclass, raw_of(json))
    IN  IF IsRaise(v) THEN v ELSE Obj(c.id, v)

\* "def to_json(self): return self"
primitive_to_json(self) == self

\* "def from_json(cls, json): return cls(json)"
primitive_from_json(c, json) == primitive_new(c, json)

\* a == b of Python for an instance of an emitted class and a plain value
py_eq(a, b) == raw_of(a) = raw_of(b)

TypeDefProperties ==
    {<<>>,
     <<CdpProperty(Name_id, "string", NoRef, NoItems, FALSE)>>,
     <<CdpProperty(Name_nodeId, "integer", NoRef, NoItems, TRUE),
       CdpProperty(Name_id, "string", NoRef, NoItems, FALSE)>>}

\* type and items of the types: scalar, object, list, and a type name that
\* CdpPrimitiveType does not have
TypeDefKinds ==
    {[type |-> "string", items |-> NoItems],
     [type |-> "object", items |-> NoItems],
     [type |-> "array", items |-> CdpItems("string", NoRef)],
     [type |-> "binary", items |-> NoItems]}

\* type and items of the types that have neither enum nor properties: every
\* scalar kind, and lists of scalars and of references
PrimitiveKinds ==
    {[type |-> k, items |-> NoItems] : k \in PrimitiveNames}
    \cup {[type |-> "array", items |-> CdpItems("string", NoRef)],
          [type |-> "array", items |-> CdpItems("integer", NoRef)],
          [type |-> "array", items |-> CdpItems("", Ref_Node)]}

TypeDefs ==
    {CdpType(<<"T">>, k.type, k.items, e, ps) :
        k \in TypeDefKinds, e \in EnumLists \cup {<<>>},
        ps \in TypeDefProperties}
    \cup {CdpType(<<"T">>, k.type, k.items, <<>>, <<>>) : k \in PrimitiveKinds}

\* the schema-valid wire values of a type without enum and properties
TypeWireValues(t) ==
    WireValues([type |-> t.type, ref |-> NoRef, items |-> t.items])

InitTypeDef ==
    /\ ir \in TypeDefs
    /\ code = NoCode
    /\ rt = RtStart
    /\ run = RunIdle

\* CdpType.generate_code
GenerateTypeDef ==
    /\ ir.node = "type"
    /\ code.kind = "none"
    /\ code' = type_generate_code(ir)
    /\ UNCHANGED <<ir, rt, run>>

\* the emitted module is imported: the body of the enum class is executed
LoadEnum ==
    /\ code.kind = "enum"
    /\ rt.pc = "start"
    /\ rt' = [rt EXCEPT !.pc = IF enum_class_ok(code) THEN "loaded"
                                ELSE "load_failed"]
    /\ UNCHANGED <<ir, code, run>>

\* a string arrives from the browser and is given to from_json
EnumFromWire ==
    /\ code.kind = "enum"
    /\ rt.pc = "loaded"
    /\ \E w \in WireStrings :
           rt' = [rt EXCEPT !.pc = "decoded", !.json = w, !.src = "wire",
                            !.out = enum_from_json(code, w)]
    /\ UNCHANGED <<ir, code, run>>

\* the host program takes a member of the class
EnumPick ==
    /\ code.kind = "enum"
    /\ rt.pc = "loaded"
    /\ \E i \in DOMAIN code.members :
           rt' = [rt EXCEPT !.pc = "picked",
                            !.self = Member(code, code.members[i])]
    /\ UNCHANGED <<ir, code, run>>

\* self.to_json()
EnumToJson ==
    /\ code.kind = "enum"
    /\ rt.pc = "picked"
    /\ rt' = [rt EXCEPT !.pc = "encoded", !.json = enum_to_json(rt.self),
                        !.src = "to_json"]
    /\ UNCHANGED <<ir, code, run>>

\* T.from_json(json) on what to_json gave
EnumFromJson ==
    /\ code.kind = "enum"
    /\ rt.pc = "encoded"
    /\ rt' = [rt EXCEPT !.pc = "decoded", !.out = enum_from_json(code, rt.json)]
    /\ UNCHANGED <<ir, code, run>>

\* the emitted module is imported: the class statement is executed
LoadPrimitive ==
    /\ code.kind = "primitive"
    /\ rt.pc = "start"
    /\ \E ok \in primitive_class_ok(code) :
           rt' = [rt EXCEPT !.pc = IF ok THEN "loaded" ELSE "load_failed"]
    /\ UNCHANGED <<ir, code, run>>

\* a value arrives from the browser and is given to from_json
PrimitiveFromWire ==
    /\ code.kind = "primitive"
    /\ rt.pc = "loaded"
    /\ \E w \in TypeWireValues(ir) :
           rt' = [rt EXCEPT !.pc = "decoded", !.json = w, !.src = "wire",
                            !.out = primitive_from_json(code, w)]
    /\ UNCHANGED <<ir, code, run>>

\* to_json of the instance that from_json built from the wire value
PrimitiveBackToJson ==
    /\ code.kind = "primitive"
    /\ rt.pc = "decoded"
    /\ rt.src = "wire"
    /\ ~IsRaise(rt.out)
    /\ rt' = [rt EXCEPT !.pc = "reencoded", !.self = rt.out,
                        !.out = primitive_to_json(rt.out)]
    /\ UNCHANGED <<ir, code, run>>

\* the host program wraps a value: T(v)
PrimitiveWrap ==
    /\ code.kind = "primitive"
    /\ rt.pc = "loaded"
    /\ \E v \in TypeWireValues(ir) :
           rt' = [rt EXCEPT !.pc = IF IsRaise(primitive_new(code, v))
                                   THEN "wrap_failed" ELSE "picked",
                            !.self = primitive_new(code, v)]
    /\ UNCHANGED <<ir, code, run>>

\* self.to_json()
PrimitiveToJson ==
    /\ code.kind = "primitive"
    /\ rt.pc = "picked"
    /\ rt' = [rt EXCEPT !.pc = "encoded", !.json = primitive_to_json(rt.self),
                        !.src = "to_json"]
    /\ UNCHANGED <<ir, code, run>>

\* T.from_json(json) on what to_json gave
PrimitiveFromJson ==
    /\ code.kind = "primitive"
    /\ rt.pc = "encoded"
    /\ rt' = [rt EXCEPT !.pc = "decoded",
                        !.out = primitive_from_json(code, rt.json)]
    /\ UNCHANGED <<ir, code, run>>

NextTypeDef ==
    GenerateTypeDef \/ LoadEnum \/ EnumFromWire \/ EnumPick \/ EnumToJson
        \/ EnumFromJson \/ LoadPrimitive \/ PrimitiveFromWire
        \/ PrimitiveBackToJson \/ PrimitiveWrap \/ PrimitiveToJson
        \/ PrimitiveFromJson

SpecTypeDef == InitTypeDef /\ [][NextTypeDef]_vars

(***************************************************************************)
(* Claims about the emitted enum                                           *)
(***************************************************************************)
\* C11: from_json of the emitted enum, given a string from the wire,
\* returns a member exactly when the string is one of the declared
\* literals, the member bound to that literal; any other string raises
\* ValueError and no member is returned.
C11_EnumClosure ==
    (code.kind = "enum" /\ rt.pc = "decoded" /\ rt.src = "wire") =>
        IF \E i \in DOMAIN ir.enum : ir.enum[i] = rt.json
        THEN rt.out.t = "member" /\ rt.out.v.value = rt.json
        ELSE rt.out = Raise("ValueError")

\* C11's case: the enum declares the literal none, the string NONE (the
\* identifier of that member) arrives, and from_json has raised ValueError.
C11_Witness ==
    /\ code.kind = "enum"
    /\ rt.pc = "decoded"
    /\ rt.src = "wire"
    /\ \E i \in DOMAIN ir.enum : ir.enum[i] = Lit_none
    /\ rt.json = <<"N", "O", "N", "E">>
    /\ rt.out = Raise("ValueError")

\* C12: for every member of the emitted enum, to_json returns the literal
\* the member was declared with, and from_json of that string is the same
\* member again.
C12_EnumRoundTrip ==
    /\ (code.kind = "enum" /\ rt.pc = "encoded") =>
           \E i \in DOMAIN ir.enum :
               /\ rt.self.v.name = code.members[i].name
               /\ rt.json = ir.enum[i]
    /\ (code.kind = "enum" /\ rt.pc = "decoded" /\ rt.src = "to_json") =>
           rt.out = rt.self

\* C12's case: the member RELATED_ELEMENT has been encoded to
\* relatedElement and decoded to itself.
C12_Witness ==
    /\ code.kind = "enum"
    /\ rt.pc = "decoded"
    /\ rt.src = "to_json"
    /\ rt.json = Lit_relatedElement
    /\ rt.self.v.name = <<"R", "E", "L", "A", "T", "E", "D", "_",
                          "E", "L", "E", "M", "E", "N", "T">>
    /\ rt.out = rt.self

\* C13: the emitted enum has one member per declared literal, in schema
\* order; the member's identifier is the upper-case snake-case form of the
\* literal (relatedElement gives RELATED_ELEMENT) and its value the literal.
C13_EnumVariants ==
    code.kind = "enum" =>
        /\ Len(code.members) = Len(ir.enum)
        /\ \A i \in DOMAIN ir.enum :
               /\ code.members[i].value = ir.enum[i]
               /\ code.members[i].name = upper(underscore(ir.enum[i]))
               /\ ir.enum[i] = Lit_relatedElement =>
                      code.members[i].name =
                          <<"R", "E", "L", "A", "T", "E", "D", "_",
                            "E", "L", "E", "M", "E", "N", "T">>
               /\ ir.enum[i] = Lit_none =>
                      code.members[i].name = <<"N", "O", "N", "E">>

\* C13's case: the enum [none, relatedElement] has been generated with the
\* members NONE and RELATED_ELEMENT in that order.
C13_Witness ==
    /\ code.kind = "enum"
    /\ ir.enum = <<Lit_none, Lit_relatedElement>>
    /\ Len(code.members) = 2
    /\ code.members[1] = [name |-> <<"N", "O", "N", "E">>, value |-> Lit_none]
    /\ code.members[2].value = Lit_relatedElement
    /\ code.members[2].name = <<"R", "E", "L", "A", "T", "E", "D", "_",
                                "E", "L", "E", "M", "E", "N", "T">>

\* C14: generate_code picks the shape of a type by a fixed precedence and
\* for every type: a non-empty enum gives the enum class, even when there
\* are properties too; otherwise non-empty properties give the dataclass;
\* otherwise the type goes to the primitive branch, which emits the wrapper
\* class (or, for a type name CdpPrimitiveType does not have, raises that
\* lookup's KeyError); no type is left without a branch.
C14_ClassifyPrecedence ==
    (ir.node = "type" /\ code.kind # "none") =>
        /\ ir.enum # <<>> => code.kind = "enum"
        /\ (ir.enum = <<>> /\ ir.properties # <<>>) => code.kind = "class"
        /\ (ir.enum = <<>> /\ ir.properties = <<>>) =>
               \/ code.kind = "primitive"
               \/ /\ code = EmitError("KeyError")
                  /\ ~ir.items.given
                  /\ CdpPrimitiveType(ir.type) = ""

\* C14's case: a type with a non-empty enum and non-empty properties has
\* been generated as an enum class.
C14_Witness ==
    /\ ir.node = "type"
    /\ ir.enum # <<>>
    /\ ir.properties # <<>>
    /\ code.kind = "enum"
    /\ Len(code.members) = Len(ir.enum)

(***************************************************************************)
(* ref_to_python on its own                                                *)
(***************************************************************************)
\* bound of the inputs: dots in a $ref
MaxDots == 2

Domain_CSS == <<"C", "S", "S">>

Domain_DOMSnapshot ==
    <<"D", "O", "M", "S", "n", "a", "p", "s", "h", "o", "t">>

Domain_IndexedDB == <<"I", "n", "d", "e", "x", "e", "d", "D", "B">>

RefDomains ==
    {Domain_DOM, Domain_CSS, Domain_DOMSnapshot, Domain_IndexedDB, Domain_Runtime}

RefLocals ==
    {Ref_Node, <<"N", "o", "d", "e", "I", "d">>, <<"A", "X", "N", "o", "d", "e">>,
     <<"R", "e", "m", "o", "t", "e", "O", "b", "j", "e", "c", "t">>}

\* the $ref strings with n dots: a local name, Domain.Name, Domain.Name.Name
RECURSIVE RefsWithDots(_)
RefsWithDots(n) ==
    IF n = 0 THEN RefLocals
    ELSE IF n = 1 THEN {d \o <<".">> \o l : d \in RefDomains, l \in RefLocals}
    ELSE {r \o <<".">> \o l : r \in RefsWithDots(n - 1), l \in RefLocals}

RawRefs == UNION {RefsWithDots(n) : n \in 0..MaxDots}

InitRef ==
    /\ ir \in {[node |-> "ref", ref |-> r] : r \in RawRefs}
    /\ code = NoCode
    /\ rt = RtStart
    /\ run = RunIdle

\* ref_to_python(ref), called while a declaration or a conversion is emitted
ResolveRef ==
    /\ ir.node = "ref"
    /\ code.kind = "none"
    /\ code' = [kind |-> "ref", text |-> ref_to_python(ir.ref)]
    /\ UNCHANGED <<ir, rt, run>>

NextRef == ResolveRef

SpecRef == InitRef /\ [][NextRef]_vars

\* the text before the first dot of a dotted ref, and the text after it
BeforeDot(ref) ==
    SubSeq(ref, 1, (CHOOSE i \in DOMAIN ref :
                       ref[i] = "." /\ \A j \in 1..(i - 1) : ref[j] # ".") - 1)

AfterDot(ref) == SubSeq(ref, Len(BeforeDot(ref)) + 2, Len(ref))

\* C15: ref_to_python gives a name for every $ref: a ref without a dot is
\* its own name; a ref with a dot gives the snake-case form of the part
\* before the dot, a dot, and the rest unchanged; no ref makes it fail.
C15_ResolveTotal ==
    code.kind = "ref" =>
        /\ code.text # <<"!", "V", "a", "l", "u", "e", "E", "r", "r", "o", "r">>
        /\ IF \A i \in DOMAIN ir.ref : ir.ref[i] # "."
           THEN code.text = ir.ref
           ELSE code.text = underscore(BeforeDot(ir.ref)) \o <<".">>
                                \o AfterDot(ir.ref)

\* C15 on the refs with at most one dot
C15_ResolveOneDot ==
    (code.kind = "ref" /\ Cardinality({i \in DOMAIN ir.ref : ir.ref[i] = "."}) <= 1)
        => C15_ResolveTotal

(***************************************************************************)
(* More claims about the generation run                                    *)
(***************************************************************************)
\* the events in the modules of the output directory: file, position, tag
EmittedEvents ==
    UNION {{[file |-> f.name, at |-> i, tag |-> f.content.items[i].tag] :
               i \in {j \in DOMAIN f.content.items :
                         f.content.items[j].kind = "event"}} :
              f \in {g \in run.dir.files : g.content.kind = "module"}}

\* C16: after a run that ends well, no two emitted events carry the same
\* tag '<domain>.<name>': an input in which two events have one tag makes
\* the run fail and is not emitted.
C16_EventTagsUnique ==
    run.pc = "done" =>
        \A a, b \in EmittedEvents : a.tag = b.tag => a = b

\* the domain nodes of the first k protocol descriptions, in document order
RECURSIVE DomainNodes(_)
DomainNodes(k) ==
    IF k = 0 THEN <<>> ELSE DomainNodes(k - 1) \o ir.docs[k].domains

VersionOf(k) == <<ir.docs[k].version.major, ir.docs[k].version.minor>>

\* C18: a protocol description whose version is not ("1", "3") makes
\* parse fail (the run ends) and gives no domain; one whose version is
\* ("1", "3") gives one domain per domain node, in document order.
C18_ParseVersion ==
    /\ run.pc = "parse" =>
           /\ \A k \in 1..(run.next - 1) : VersionOf(k) = <<"1", "3">>
           /\ run.domains = DomainNodes(run.next - 1)
    /\ (run.pc = "failed" /\ run.error = Raise("AssertionError")) =>
           /\ VersionOf(run.next) # <<"1", "3">>
           /\ run.domains = DomainNodes(run.next - 1)
    /\ (run.pc = "failed" /\ run.error # Raise("AssertionError")) =>
           \A k \in DOMAIN ir.docs : VersionOf(k) = <<"1", "3">>

\* C18's case: the first description, version 1.3, has given its two
\* domains in document order, and the second, version 1.2 with a domain
\* node, has failed the run without giving a domain.
C18_Witness ==
    /\ run.pc = "failed"
    /\ run.error = Raise("AssertionError")
    /\ run.next = 2
    /\ Len(ir.docs[1].domains) = 2
    /\ run.domains = ir.docs[1].domains
    /\ VersionOf(2) = <<"1", "2">>
    /\ ir.docs[2].domains # <<>>

\* the content of the file called name in the output directory
ContentOf(name) == (CHOOSE f \in run.dir.files : f.name = name).content

\* the last of the sorted domains that is written to the module file of
\* the domain at i
LastWriter(i) ==
    CHOOSE j \in DOMAIN run.domains :
        /\ module_path(run.domains[j]) = module_path(run.domains[i])
        /\ \A k \in DOMAIN run.domains :
               module_path(run.domains[k]) = module_path(run.domains[i]) => k <= j

\* C19: what a run that ends well has written is fixed by the protocol
\* descriptions alone, whatever the output directory held before: the
\* domains are all the domain nodes, in the order of their names; each
\* module file holds the text generated for its domain and __init__.py the
\* imports in that order.
C19_Deterministic ==
    run.pc = "done" =>
        /\ Len(run.domains) = Len(DomainNodes(Len(ir.docs)))
        /\ {run.domains[i] : i \in DOMAIN run.domains}
               = {DomainNodes(Len(ir.docs))[i] :
                     i \in DOMAIN DomainNodes(Len(ir.docs))}
        /\ \A i, j \in DOMAIN run.domains :
               i < j => ~str_lt(run.domains[j].domain, run.domains[i].domain)
        /\ \A i \in DOMAIN run.domains :
               /\ \E f \in run.dir.files : f.name = module_path(run.domains[i])
               /\ ContentOf(module_path(run.domains[i]))
                      = domain_generate_code(run.domains[LastWriter(i)])
        /\ \E f \in run.dir.files : f.name = Name_init_py
        /\ ContentOf(Name_init_py)
               = [kind |-> "init",
                  imports |-> [i \in DOMAIN run.domains |->
                                  underscore(run.domains[i].domain)]]

\* C19's case: the directory held an old dom.py and an old __init__.py, the
\* first description lists DOM before Animation, and the run has ended
\* with the modules of Animation and DOM, in that order, and new files.
C19_Witness ==
    /\ run.pc = "done"
    /\ File(Name_dom_py, OldContent) \in run.before.files
    /\ File(Name_init_py, OldContent) \in run.before.files
    /\ Len(ir.docs[1].domains) = 2
    /\ ir.docs[1].domains[1].domain = Domain_DOM
    /\ ir.docs[1].domains[2].domain = Domain_Animation
    /\ run.domains[1].domain = Domain_Animation
    /\ run.domains[2].domain = Domain_DOM
    /\ ContentOf(Name_dom_py).kind = "module"
    /\ ContentOf(Name_init_py).kind = "init"

\* C20: after a run that ends well every domain has its own module file:
\* no two domains of the run were written to one file, and each file holds
\* the text of its domain.
C20_OneFilePerDomain ==
    run.pc = "done" =>
        /\ \A i, j \in DOMAIN run.domains :
               i # j => module_path(run.domains[i]) # module_path(run.domains[j])
        /\ \A i \in DOMAIN run.domains :
               ContentOf(module_path(run.domains[i])).domain
                   = run.domains[i].domain

(***************************************************************************)
(* An event: generation, then the emitted class at run time                *)
(***************************************************************************)
\* the emitted from_json(cls, json) of an event: return cls(<kw>=<expr>, ...)
event_from_json(cls, json) ==
    dataclass_init(cls.fields,
                   [i \in DOMAIN cls.from_json |->
                       [kw |-> cls.from_json[i].kw,
                        val |-> eval_from_json(cls.from_json[i].expr, json)]])

Events ==
    {CdpEvent(Name_dataCollected, ps, Domain_Tracing) :
        ps \in PropertyLists(WireNames, MaxProps)}

InitEvent ==
    /\ ir \in Events
    /\ code = NoCode
    /\ rt = RtStart
    /\ run = RunIdle

\* a schema-valid event object arrives from the browser
ReceiveEvent ==
    /\ code.kind = "event"
    /\ rt.pc = "loaded"
    /\ \E vs \in Bindings(ir.parameters, "wire") :
           rt' = [rt EXCEPT !.pc = "received",
                            !.json = WireObject(ir.parameters, vs),
                            !.src = "wire"]
    /\ UNCHANGED <<ir, code, run>>

\* <Event>.from_json(json)
DecodeEvent ==
    /\ code.kind = "event"
    /\ rt.pc = "received"
    /\ rt' = [rt EXCEPT !.pc = "decoded",
                        !.out = event_from_json(code, rt.json)]
    /\ UNCHANGED <<ir, code, run>>

\* an event object without the key of a required parameter arrives
ReceiveEventIncomplete ==
    /\ code.kind = "event"
    /\ rt.pc = "loaded"
    /\ \E json \in IncompleteObjects(ir.parameters) :
           rt' = [rt EXCEPT !.pc = "received", !.json = json,
                            !.src = "incomplete"]
    /\ UNCHANGED <<ir, code, run>>

NextEvent ==
    GenerateEvent \/ Load \/ ReceiveEvent \/ ReceiveEventIncomplete
        \/ DecodeEvent

SpecEvent == InitEvent /\ [][NextEvent]_vars

\* C17: the class emitted for an event has one field per parameter and the
\* tag '<domain>.<name>' of the raw domain and event names; from_json binds
\* each field, under the Python name of its parameter, to the value
\* decoded from the parameter's wire key.
C17_EventRecord ==
    /\ code.kind = "event" =>
           /\ Len(code.fields) = Len(ir.parameters)
           /\ \A i \in DOMAIN ir.parameters :
                  /\ code.fields[i].name = py_name(ir.parameters[i])
                  /\ code.from_json[i].kw = py_name(ir.parameters[i])
                  /\ code.from_json[i].expr.key = ir.parameters[i].name
           /\ code.tag = ir.domain \o <<".">> \o ir.name
    /\ (/\ code.kind = "event"
        /\ rt.pc = "decoded"
        /\ \A i \in DOMAIN ir.parameters :
               ir.parameters[i].name \in DOMAIN rt.json.v) =>
           /\ rt.out.t = "instance"
           /\ \A i \in DOMAIN ir.parameters :
                  rt.out.v[py_name(ir.parameters[i])]
                      = ExpectedValue(ir.parameters[i], rt.json)

\* C17 for the events that have no parameter of type any, alone or as the
\* element of a list
C17_EventRecordNoAny ==
    (\A i \in DOMAIN ir.parameters :
         /\ ir.parameters[i].type # "any"
         /\ ir.parameters[i].items.type # "any")
        => C17_EventRecord

(***************************************************************************)
(* The conversions of the emitted primitive classes                        *)
(***************************************************************************)
\* what the identity conversions of an emitted primitive class amount to in
\* the current state: from_json of a wire value wraps that value, to_json
\* returns its argument, and each round trip ends on an equal value
PrimitiveConversionsAreIdentity ==
    /\ (rt.pc = "decoded" /\ rt.src = "wire") =>
           ~IsRaise(rt.out) /\ rt.out = Obj(code.id, rt.json)
    /\ rt.pc = "reencoded" => rt.out = rt.self /\ py_eq(rt.out, rt.json)
    /\ rt.pc = "encoded" => rt.json = rt.self
    /\ (rt.pc = "decoded" /\ rt.src = "to_json") =>
           ~IsRaise(rt.out) /\ py_eq(rt.out, rt.self)

\* C21: every emitted primitive class (over any scalar, or over a list) can
\* be used and has identity conversions: to_json returns the wrapped value
\* unchanged, from_json wraps the wire value untransformed,
\* from_json(to_json(v)) equals v and to_json(from_json(w)) equals w.
C21_PrimitiveIdentity ==
    code.kind = "primitive" =>
        /\ rt.pc \notin {"load_failed", "wrap_failed"}
        /\ PrimitiveConversionsAreIdentity

\* C21, for the superclasses that can be subclassed and constructed from a
\* value (str, int, float, dict, list): the conversions are identities
C21_PrimitiveIdentitySubclassable ==
    (code.kind = "primitive" /\ code.superclass \notin {"bool", "typing.Any"}) =>
        /\ rt.pc \notin {"load_failed", "wrap_failed"}
        /\ PrimitiveConversionsAreIdentity

\* both round trips have been made on a list of references
C21_Witness ==
    /\ code.kind = "primitive"
    /\ code.py_type.list
    /\ code.py_type.ref # NoRef
    /\ rt.pc = "reencoded"
    /\ rt.json = PyList(<<PyStr("v")>>)

\* the class over bool does not load
C21_BoolFails ==
    /\ code.kind = "primitive"
    /\ code.superclass = "bool"
    /\ rt.pc = "load_failed"

\* the class over typing.Any loads, and its from_json raises
C21_AnyFails ==
    /\ code.kind = "primitive"
    /\ code.superclass = "typing.Any"
    /\ rt.pc = "decoded"
    /\ IsRaise(rt.out)

(***************************************************************************)
(* to_json of a class, shape by shape                                      *)
(***************************************************************************)
\* what to_json has to store for property p whose field holds x: each
\* element's to_json for a list of references, the elements as they are for
\* a list of scalars, the referent's to_json for a reference, x itself for
\* a scalar; items decide before type and ref
EncodedByShape(p, x) ==
    IF p.items.given
    THEN (IF p.items.ref # NoRef
          THEN PyList([i \in DOMAIN x.v |-> x.v[i].v.raw])
          ELSE PyList(x.v))
    ELSE IF p.ref # NoRef THEN x.v.raw
    ELSE x

\* C22: to_json of a class stores every field that is present under its
\* wire name, encoded by the shape of the property (scalar as it is,
\* reference through to_json, list element by element), and a property with
\* both items and a type or a reference is encoded as a list.
C22_EncodeByShape ==
    rt.pc = "encoded" =>
        /\ ~IsRaise(rt.json)
        /\ \A i \in DOMAIN ir.properties :
               LET p == ir.properties[i]
                   x == rt.self.v[py_name(p)]
               IN  x # None =>
                       /\ p.name \in DOMAIN rt.json.v
                       /\ rt.json.v[p.name] = EncodedByShape(p, x)

\* C22's case: to_json has run on an instance with a non-empty list of
\* references and a non-empty list whose property also has a reference
C22_Witness ==
    /\ rt.pc = "encoded"
    /\ \E i, j \in DOMAIN ir.properties :
           LET p == ir.properties[i]
               q == ir.properties[j]
           IN  /\ p.items.given /\ p.ref # NoRef
               /\ p.name \in DOMAIN rt.json.v
               /\ rt.json.v[p.name] = PyList(<<PyStr("v")>>)
               /\ q.items.given /\ q.items.ref # NoRef
               /\ q.name \in DOMAIN rt.json.v
               /\ rt.json.v[q.name] = PyList(<<PyStr("v")>>)

(***************************************************************************)
(* The keywords of the emitted from_json of a class                        *)
(***************************************************************************)
\* C23: for every property of a class, the keyword under which the emitted
\* from_json passes the decoded value to the constructor is the name of the
\* field declared for that property, the snake-cased wire name.
C23_KeywordIsField ==
    code.kind = "class" =>
        \A i \in DOMAIN ir.properties :
            /\ code.from_json[i].kw = py_name(ir.properties[i])
            /\ \E k \in DOMAIN code.fields :
                   code.fields[k].name = code.from_json[i].kw

\* C23, for wire names that are their own snake-cased form
C23_KeywordIsFieldSnake ==
    code.kind = "class" =>
        \A i \in DOMAIN ir.properties :
            py_name(ir.properties[i]) = ir.properties[i].name =>
                /\ code.from_json[i].kw = py_name(ir.properties[i])
                /\ \E k \in DOMAIN code.fields :
                       code.fields[k].name = code.from_json[i].kw

\* from_json of a class with the property nodeId has raised TypeError on a
\* wire object that holds the key
C23_CamelCaseFails ==
    /\ code.kind = "class"
    /\ Len(ir.properties) = 1
    /\ ir.properties[1].name = Name_nodeId
    /\ ir.properties[1].type = "string"
    /\ rt.pc = "decoded"
    /\ rt.src = "wire"
    /\ Name_nodeId \in DOMAIN rt.json.v
    /\ rt.out = Raise("TypeError")

(***************************************************************************)
(* The parameter list of an emitted command                                *)
(***************************************************************************)
\* C24: in the parameter list of every emitted command, every parameter
\* without default precedes every parameter with a default.
C24_RequiredParamsFirst ==
    code.kind = "command" =>
        \A i, j \in DOMAIN code.params :
            (~code.params[i].default /\ code.params[j].default) => i < j

\* the parameters of an emitted command are those of the schema, in the
\* order of the schema, with a default exactly for the optional ones
C24_ParamsInSchemaOrder ==
    code.kind = "command" =>
        /\ Len(code.params) = Len(ir.parameters)
        /\ \A i \in DOMAIN code.params :
               /\ code.params[i].name = py_name(ir.parameters[i])
               /\ code.params[i].default = ir.parameters[i].optional

\* a command whose schema lists an optional parameter before a required
\* one has been emitted with the optional parameter first
C24_OptionalBeforeRequired ==
    /\ code.kind = "command"
    /\ Len(code.params) = 2
    /\ code.params[1].default
    /\ ~code.params[2].default

(***************************************************************************)
(* from_json of an event on an object without an optional key              *)
(***************************************************************************)
\* property p is a scalar: neither a list nor a reference
IsScalar(p) == ~p.items.given /\ p.ref = NoRef

\* C25: from_json of an event whose parameters are optional scalars, on a
\* wire object that lacks their keys, succeeds and binds None to each of
\* the fields.
C25_EventOptionalScalarMissing ==
    (/\ code.kind = "event"
     /\ rt.pc = "decoded"
     /\ rt.json.v = EmptyMap
     /\ \A i \in DOMAIN ir.parameters :
            ir.parameters[i].optional /\ IsScalar(ir.parameters[i]))
    => /\ ~IsRaise(rt.out)
       /\ \A i \in DOMAIN ir.parameters :
              rt.out.v[py_name(ir.parameters[i])] = None

\* the same for optional parameters that are references or lists: no call
\* of a primitive type is put around their expression
C25_EventOptionalOtherMissing ==
    (/\ code.kind = "event"
     /\ rt.pc = "decoded"
     /\ rt.json.v = EmptyMap
     /\ \A i \in DOMAIN ir.parameters :
            ir.parameters[i].optional /\ ~IsScalar(ir.parameters[i]))
    => /\ ~IsRaise(rt.out)
       /\ \A i \in DOMAIN ir.parameters :
              rt.out.v[py_name(ir.parameters[i])] = None

\* an optional string parameter without its key has been decoded to the
\* string 'None'
C25_StringNone ==
    /\ code.kind = "event"
    /\ rt.pc = "decoded"
    /\ rt.json.v = EmptyMap
    /\ Len(ir.parameters) = 1
    /\ ir.parameters[1].type = "string"
    /\ IsScalar(ir.parameters[1])
    /\ ~IsRaise(rt.out)
    /\ rt.out.v[py_name(ir.parameters[1])] = PyStr("None")

\* an optional integer parameter without its key has raised TypeError
C25_IntegerRaises ==
    /\ code.kind = "event"
    /\ rt.pc = "decoded"
    /\ rt.json.v = EmptyMap
    /\ Len(ir.parameters) = 1
    /\ ir.parameters[1].type = "integer"
    /\ IsScalar(ir.parameters[1])
    /\ rt.out = Raise("TypeError")

(***************************************************************************)
(* The identifiers of the members of an emitted enum                       *)
(***************************************************************************)
\* the identifiers the emitted enum class defines
MemberNames == {code.members[i].name : i \in DOMAIN code.members}

\* C26: within one emitted enum, distinct literals get distinct member
\* identifiers, so the class has as many members as the schema has
\* literals.
C26_DistinctIdentifiers ==
    code.kind = "enum" =>
        /\ \A i, j \in DOMAIN code.members :
               code.members[i].value # code.members[j].value
                   => code.members[i].name # code.members[j].name
        /\ Cardinality(MemberNames) = Len(ir.enum)

\* the enum [a-b, a_b] has been emitted with the identifier A_B twice, and
\* loading the class has failed
C26_Collision ==
    /\ code.kind = "enum"
    /\ ir.enum = <<Lit_a_dash_b, Lit_a_b>>
    /\ code.members[1].name = <<"A", "_", "B">>
    /\ code.members[2].name = <<"A", "_", "B">>
    /\ rt.pc = "load_failed"

(***************************************************************************)
(* Nothing is written before every description is parsed                   *)
(***************************************************************************)
\* the files of the output directory that this run has written
Written == {f \in run.dir.files : f.content # OldContent}

\* C27: while a file written by the run is in the output directory, every
\* protocol description has been parsed and has version ("1", "3"), and
\* the run holds the domains of all of them; a run that failed on the
\* version of a description has written no file.
C27_ParseBeforeWrite ==
    /\ Written # {} =>
           /\ run.pc \in {"write", "touch", "done", "failed"}
           /\ \A k \in DOMAIN ir.docs : VersionOf(k) = <<"1", "3">>
           /\ Len(run.domains) = Len(DomainNodes(Len(ir.docs)))
    /\ (run.pc = "failed" /\ run.error = Raise("AssertionError")) =>
           Written = {}

\* C27's case: the first description was parsed and gave domains, the
\* second failed the version check, and the run ended with no file written
C27_Witness ==
    /\ run.pc = "failed"
    /\ run.error = Raise("AssertionError")
    /\ run.next = 2
    /\ run.domains # <<>>
    /\ VersionOf(1) = <<"1", "3">>
    /\ VersionOf(2) # <<"1", "3">>
    /\ Written = {}
    /\ run.before.exists

(***************************************************************************)
(* The params entry of a request                                           *)
(***************************************************************************)
\* C28: the yielded request has the entry params exactly when the command
\* declares a parameter: without parameters it holds method alone; with
\* parameters that are all optional and all None at the call, params is
\* there and empty.
C28_ParamsIffDeclared ==
    rt.pc = "suspended" =>
        /\ ("params" \in DOMAIN rt.request) <=> (ir.parameters # <<>>)
        /\ ir.parameters = <<>> => DOMAIN rt.request = {"method"}
        /\ (/\ ir.parameters # <<>>
            /\ \A i \in DOMAIN ir.parameters :
                   /\ ir.parameters[i].optional
                   /\ rt.args.v[py_name(ir.parameters[i])] = None)
               => /\ DOMAIN rt.request = {"method", "params"}
                  /\ rt.request.params = Json(EmptyMap)

\* C28's case: a command with two optional parameters was called without
\* arguments and has yielded a request with empty params
C28_Witness ==
    /\ rt.pc = "suspended"
    /\ Len(ir.parameters) = 2
    /\ \A i \in DOMAIN ir.parameters :
           /\ ir.parameters[i].optional
           /\ rt.args.v[py_name(ir.parameters[i])] = None
    /\ "params" \in DOMAIN rt.request
    /\ rt.request.params = Json(EmptyMap)

\* a command without parameters has yielded a request that holds method
\* alone
C28_NoParameters ==
    /\ rt.pc = "suspended"
    /\ ir.parameters = <<>>
    /\ DOMAIN rt.request = {"method"}

(***************************************************************************)
(* from_json on an object without a required key                           *)
(***************************************************************************)
\* classes and events together: generation, loading, an object from the
\* wire (complete or not), from_json
InitFromJson == InitType \/ InitEvent

NextFromJson == NextType \/ NextEvent

SpecFromJson == InitFromJson /\ [][NextFromJson]_vars

\* the properties of the class, or the parameters of the event
Declared == IF ir.node = "event" THEN ir.parameters ELSE ir.properties

\* C29: from_json of a class or of an event, applied to a JSON object
\* without the wire key of a required property, raises an exception and
\* does not return an instance (in particular none whose field for that
\* property is None).
C29_MissingRequiredFails ==
    (/\ code.kind \in {"class", "event"}
     /\ rt.pc = "decoded"
     /\ \E i \in DOMAIN Declared :
            /\ ~Declared[i].optional
            /\ Declared[i].name \notin DOMAIN rt.json.v)
    => /\ IsRaise(rt.out)
       /\ rt.out.t # "instance"

\* C29's case: from_json of a class has raised KeyError on an object that
\* lacks the one required key and holds the other one
C29_Witness ==
    /\ code.kind = "class"
    /\ rt.pc = "decoded"
    /\ Len(ir.properties) = 2
    /\ ~ir.properties[1].optional
    /\ ir.properties[1].name \notin DOMAIN rt.json.v
    /\ ir.properties[2].name \in DOMAIN rt.json.v
    /\ rt.out = Raise("KeyError")

\* from_json of an event has raised KeyError on an object that lacks the
\* key of its required parameter
C29_EventFails ==
    /\ code.kind = "event"
    /\ rt.pc = "decoded"
    /\ Len(ir.parameters) = 1
    /\ ~ir.parameters[1].optional
    /\ rt.json.v = EmptyMap
    /\ rt.out = Raise("KeyError")

(***************************************************************************)
(* Optional values that are present but zero, false or empty               *)
(***************************************************************************)
\* classes and commands together: generation, then to_json of an instance
\* or the request of a call
InitToJson == InitType \/ InitCommand

NextToJson == NextType \/ NextCommand

SpecToJson == InitToJson /\ [][NextToJson]_vars

\* x is 0, False, the empty string, the empty list or the empty dict
IsFalsy(x) == x # None /\ py_bool(x) = PyBool("False")

\* C30: an optional field of a class, or an optional parameter of a
\* command, whose value is present but zero, false or empty (0, False, '',
\* []) is written by to_json, or into the params of the request, under
\* its wire name; only None is left out.
C30_FalsyOptionalWritten ==
    /\ (ir.node = "type" /\ rt.pc = "encoded") =>
           /\ ~IsRaise(rt.json)
           /\ \A i \in DOMAIN ir.properties :
                  LET p == ir.properties[i]
                      x == rt.self.v[py_name(p)]
                  IN  /\ (p.optional /\ IsFalsy(x)) =>
                             /\ p.name \in DOMAIN rt.json.v
                             /\ rt.json.v[p.name] = x
                      /\ (p.optional /\ p.name \notin DOMAIN rt.json.v)
                             => x = None
    /\ (ir.node = "command" /\ rt.pc = "suspended" /\ ir.parameters # <<>>) =>
           \A i \in DOMAIN ir.parameters :
               LET p == ir.parameters[i]
                   x == rt.args.v[py_name(p)]
               IN  /\ (p.optional /\ IsFalsy(x)) =>
                          /\ p.name \in DOMAIN rt.request.params.v
                          /\ rt.request.params.v[p.name] = x
                   /\ (p.optional /\ p.name \notin DOMAIN rt.request.params.v)
                          => x = None

\* C30's case: a command with an optional boolean and an optional list was
\* called with False and [], and the request holds both
C30_Witness ==
    /\ ir.node = "command"
    /\ rt.pc = "suspended"
    /\ Len(ir.parameters) = 2
    /\ ir.parameters[1].optional /\ ir.parameters[1].type = "boolean"
    /\ ir.parameters[2].optional /\ ir.parameters[2].items.given
    /\ rt.args.v[py_name(ir.parameters[1])] = PyBool("False")
    /\ rt.args.v[py_name(ir.parameters[2])] = PyList(<<>>)
    /\ rt.request.params.v[ir.parameters[1].name] = PyBool("False")
    /\ rt.request.params.v[ir.parameters[2].name] = PyList(<<>>)

\* to_json of a class has written an optional field that holds 0 and an
\* optional field that holds the empty string
C30_ClassZeroAndEmpty ==
    /\ ir.node = "type"
    /\ rt.pc = "encoded"
    /\ Len(ir.properties) = 2
    /\ ir.properties[1].optional /\ ir.properties[2].optional
    /\ rt.self.v[py_name(ir.properties[1])] = PyInt("0")
    /\ rt.self.v[py_name(ir.properties[2])] = PyStr("")
    /\ rt.json.v[ir.properties[1].name] = PyInt("0")
    /\ rt.json.v[ir.properties[2].name] = PyStr("")

====
